---------------------------- MODULE Spec2Model ----------------------------
(***************************************************************************)
(* GoldBot AI: the tool execution functions (calculation, weight value,    *)
(* spot price, historical data, web search, time chart data) and the chat  *)
(* orchestrators (processChatWithLLM, processChatWithLangChain).           *)
(*                                                                         *)
(* Strings are sequences of one-character strings.  Numbers computed by    *)
(* the arithmetic evaluator are exact rationals n/d, with the IEEE special *)
(* values (signed zero, signed Infinity, NaN) kept apart.                  *)
(***************************************************************************)
EXTENDS Integers, Sequences, FiniteSets, TLC

VARIABLES
    pc,            \* position of the modelled call: which step comes next
    args,          \* the arguments of the function being executed
    env,           \* process.env, the data file, what the upstream services answer
    functionArg,   \* the text handed to Function(...), or NoCall
    fetchCalls,    \* number of requests sent to the pricing service
    providerCalls, \* number of requests sent to the LLM provider
    toolResult,    \* the value returned by the last tool execution function
    toolResults,   \* the orchestrator's toolResults array
    toolsUsed,     \* the orchestrator's toolsUsed array
    pending,       \* the tool executions that have started and not finished
    chatResponse,  \* the value returned by the orchestrator
    messages,          \* the page's message list
    isLoading,         \* the page's isLoading state
    selectedProvider,  \* the page's selected provider
    selectedModel,     \* the page's selected model
    inFlight,          \* the sends whose fetch has not settled
    sent               \* the number of sends so far

chatVars == <<toolResults, toolsUsed, pending, chatResponse>>
pageVars == <<messages, isLoading, selectedProvider, selectedModel, inFlight, sent>>
vars == <<pc, args, env, functionArg, fetchCalls, providerCalls, toolResult, chatVars,
          pageVars>>

(***************************************************************************)
(* Bounds of the model.                                                    *)
(***************************************************************************)
MaxExprLen == 4
ExactLimit == 1000000

(***************************************************************************)
(* Characters.                                                             *)
(***************************************************************************)
DigitChars == {"0", "1", "2", "3", "4", "5", "6", "7", "8", "9"}
OperatorChars == {"+", "-", "*", "/"}
AllowedChars == DigitChars \cup OperatorChars \cup {".", "(", ")"}
WhitespaceChars == {" "}
\* The characters expressions are drawn from: two digits, every other allowed
\* character, a letter and a blank.
ExprAlphabet == {"0", "2", ".", "+", "-", "*", "/", "(", ")", "a", " "}

DigitVal(c) ==
    CASE c = "0" -> 0 [] c = "1" -> 1 [] c = "2" -> 2 [] c = "3" -> 3
      [] c = "4" -> 4 [] c = "5" -> 5 [] c = "6" -> 6 [] c = "7" -> 7
      [] c = "8" -> 8 [] c = "9" -> 9

IsDigit(c) == c \in DigitChars

Abs(x) == IF x < 0 THEN -x ELSE x

RECURSIVE GCD(_, _)
GCD(a, b) == IF b = 0 THEN a ELSE GCD(b, a % b)

RECURSIVE Pow10(_)
Pow10(k) == IF k <= 0 THEN 1 ELSE 10 * Pow10(k - 1)

(***************************************************************************)
(* JavaScript values as far as the evaluated expressions can produce them. *)
(*   num: the rational n/d (d > 0, lowest terms); neg is the sign, which   *)
(*        for n = 0 tells -0 from +0                                       *)
(*   inf: Infinity with sign neg;  nan: NaN                                *)
(*   fin: a finite non-zero number whose exact value is not tracked        *)
(*   obj: a RegExp object;  str: a string                                  *)
(*   unk: a number the model cannot classify (never produced in bounds)    *)
(***************************************************************************)
Val(k, n, d, neg) == [k |-> k, n |-> n, d |-> d, neg |-> neg]
Num(n, d) ==
    LET g == GCD(Abs(n), Abs(d))
        s == IF d < 0 THEN -1 ELSE 1
    IN  Val("num", (s * n) \div g, (s * d) \div g, (s * n) < 0)
Zero(neg) == Val("num", 0, 1, neg)
Inf(neg) == Val("inf", 0, 1, neg)
Fin(neg) == Val("fin", 0, 1, neg)
NaN == Val("nan", 0, 1, FALSE)
Str == Val("str", 0, 1, FALSE)
Obj == Val("obj", 0, 1, FALSE)
Unk == Val("unk", 0, 1, FALSE)

IsZero(v) == v.k = "num" /\ v.n = 0
Xor(a, b) == a # b

\* ToNumeric: a RegExp or a string holding one converts to NaN.
ToNumeric(v) == IF v.k \in {"str", "obj"} THEN NaN ELSE v

NegV(v0) ==
    LET v == ToNumeric(v0)
    IN  CASE v.k = "num" -> IF v.n = 0 THEN Zero(~v.neg) ELSE Num(-v.n, v.d)
          [] v.k \in {"inf", "fin"} -> Val(v.k, 0, 1, ~v.neg)
          [] OTHER -> v

AddV(a, b) ==
    CASE a.k \in {"str", "obj"} \/ b.k \in {"str", "obj"} -> Str
      [] a.k = "nan" \/ b.k = "nan" -> NaN
      [] a.k = "unk" \/ b.k = "unk" -> Unk
      [] a.k = "inf" /\ b.k = "inf" -> IF a.neg = b.neg THEN a ELSE NaN
      [] a.k = "inf" -> a
      [] b.k = "inf" -> b
      [] a.k = "fin" -> IF IsZero(b) THEN a ELSE Unk
      [] b.k = "fin" -> IF IsZero(a) THEN b ELSE Unk
      [] OTHER ->
           LET n == a.n * b.d + b.n * a.d
           IN  IF n = 0
               THEN Zero(a.n = 0 /\ b.n = 0 /\ a.neg /\ b.neg)
               ELSE Num(n, a.d * b.d)

SubV(a, b) ==
    IF a.k \in {"str", "obj"} \/ b.k \in {"str", "obj"} THEN NaN
    ELSE AddV(a, NegV(b))

MulV(a0, b0) ==
    LET a == ToNumeric(a0)
        b == ToNumeric(b0)
        s == Xor(a.neg, b.neg)
    IN  CASE a.k = "nan" \/ b.k = "nan" -> NaN
          [] a.k = "unk" \/ b.k = "unk" -> Unk
          [] a.k = "inf" -> IF IsZero(b) THEN NaN ELSE Inf(s)
          [] b.k = "inf" -> IF IsZero(a) THEN NaN ELSE Inf(s)
          [] a.k = "fin" -> IF IsZero(b) THEN Zero(s) ELSE Unk
          [] b.k = "fin" -> IF IsZero(a) THEN Zero(s) ELSE Unk
          [] OTHER -> IF a.n = 0 \/ b.n = 0 THEN Zero(s)
                      ELSE Num(a.n * b.n, a.d * b.d)

DivV(a0, b0) ==
    LET a == ToNumeric(a0)
        b == ToNumeric(b0)
        s == Xor(a.neg, b.neg)
    IN  CASE a.k = "nan" \/ b.k = "nan" -> NaN
          [] a.k = "unk" \/ b.k = "unk" -> Unk
          [] a.k = "inf" -> IF b.k = "inf" THEN NaN ELSE Inf(s)
          [] b.k = "inf" -> Zero(s)
          [] IsZero(b) -> IF IsZero(a) THEN NaN ELSE Inf(s)
          [] IsZero(a) -> Zero(s)
          [] a.k = "fin" \/ b.k = "fin" -> Unk
          [] OTHER -> Num(a.n * b.d, a.d * b.n)

\* Number of bits of a positive integer.
RECURSIVE BitLen(_)
BitLen(n) == IF n <= 0 THEN 0 ELSE 1 + BitLen(n \div 2)

\* base^e by repeated multiplication (acc holds the product so far), or 0 once
\* it leaves the exact range.
RECURSIVE IntPowAcc(_, _, _)
IntPowAcc(base, e, acc) ==
    IF e = 0 \/ base = 1 THEN acc
    ELSE IF acc * base > ExactLimit THEN 0
    ELSE IntPowAcc(base, e - 1, acc * base)
IntPow(base, e) == IntPowAcc(base, e, 1)

\* A non-zero rational raised to a non-zero integer power e (sign in eNeg).
\* Outside the exact range the result is classified by the size of a double:
\* finite below 2^1023, Infinity from 2^1024 on, zero below 2^-1075.
PowInt(a, e, eNeg) ==
    LET pn == IntPow(Abs(a.n), e)
        pd == IntPow(a.d, e)
        rneg == a.neg /\ (e % 2 = 1)
        big == IF Abs(a.n) > a.d THEN Abs(a.n) ELSE a.d
        grows == Xor(Abs(a.n) > a.d, eNeg)
    IN  IF pn # 0 /\ pd # 0
        THEN IF eNeg THEN Num((IF rneg THEN -pd ELSE pd), pn)
             ELSE Num((IF rneg THEN -pn ELSE pn), pd)
        ELSE IF e * BitLen(big) <= 1022 THEN Fin(rneg)
        ELSE IF (a.d = 1 \/ Abs(a.n) = 1) /\ e * (BitLen(big) - 1) >= 1075
        THEN (IF grows THEN Inf(rneg) ELSE Zero(rneg))
        ELSE Unk

PowV(a0, b0) ==
    LET a == ToNumeric(a0)
        b == ToNumeric(b0)
        bOddInt == b.k = "num" /\ b.d = 1 /\ b.n % 2 = 1
        rneg == a.neg /\ bOddInt
    IN  CASE b.k = "nan" -> NaN
          [] IsZero(b) -> Num(1, 1)
          [] a.k = "nan" -> NaN
          [] a.k = "unk" \/ b.k = "unk" -> Unk
          [] b.k = "inf" ->
               IF a.k = "inf" THEN (IF b.neg THEN Zero(FALSE) ELSE Inf(FALSE))
               ELSE IF a.k = "fin" THEN Unk
               ELSE IF Abs(a.n) = a.d THEN NaN
               ELSE IF Xor(Abs(a.n) > a.d, b.neg) THEN Inf(FALSE)
               ELSE Zero(FALSE)
          [] a.k = "inf" -> IF b.neg THEN Zero(rneg) ELSE Inf(rneg)
          [] IsZero(a) -> IF b.neg THEN Inf(rneg) ELSE Zero(rneg)
          [] a.k = "fin" \/ b.k = "fin" -> Unk
          [] b.d = 1 -> PowInt(a, Abs(b.n), b.neg)
          [] OTHER ->  \* fractional exponent
               IF a.neg THEN NaN
               ELSE IF Abs(b.n) < b.d THEN Fin(FALSE)
               ELSE IF ((Abs(b.n) \div b.d) + 1)
                         * BitLen(IF a.n > a.d THEN a.n ELSE a.d) <= 1022
                    THEN Fin(FALSE)
               ELSE Unk


(***************************************************************************)
(* The JavaScript lexer on the text `return (<cleaned>)`, as far as text   *)
(* made of the characters above can exercise it.                           *)
(***************************************************************************)
Tok(t, c, v) == [t |-> t, c |-> c, v |-> v]
LexError == [ok |-> FALSE, toks |-> <<>>]

\* First index at or after i that holds no digit.
RECURSIVE SkipDigits(_, _)
SkipDigits(s, i) ==
    IF i <= Len(s) /\ IsDigit(s[i]) THEN SkipDigits(s, i + 1) ELSE i

\* Index after the numeric literal that starts at i (digits, '.', digits).
NumEnd(s, i) ==
    LET j == SkipDigits(s, i)
    IN  IF j <= Len(s) /\ s[j] = "." THEN SkipDigits(s, j + 1) ELSE j

RECURSIVE DigitsValue(_)
DigitsValue(ds) ==
    IF ds = <<>> THEN 0
    ELSE 10 * DigitsValue(SubSeq(ds, 1, Len(ds) - 1)) + DigitVal(ds[Len(ds)])

\* The value of a decimal literal (its text, with at most one '.').
NumLiteralValue(lit) ==
    LET digits == SelectSeq(lit, IsDigit)
        intLen == SkipDigits(lit, 1) - 1
        fracLen == Len(digits) - intLen
    IN  Num(DigitsValue(digits), Pow10(fracLen))

\* Strict mode rejects an integer part that has a leading zero (01, 00, 08).
LegacyOctal(lit) == SkipDigits(lit, 1) - 1 > 1 /\ lit[1] = "0"

\* Index after the "*/" closing a block comment whose body starts at i; 0 if none.
RECURSIVE CommentEnd(_, _)
CommentEnd(s, i) ==
    IF i + 1 > Len(s) THEN 0
    ELSE IF s[i] = "*" /\ s[i + 1] = "/" THEN i + 2
    ELSE CommentEnd(s, i + 1)

\* Index of the first "/" at or after i; 0 if none.
RECURSIVE NextSlash(_, _)
NextSlash(s, i) ==
    IF i > Len(s) THEN 0 ELSE IF s[i] = "/" THEN i ELSE NextSlash(s, i + 1)

\* A regular-expression body over these characters is a valid pattern when its
\* parentheses balance and every quantifier follows an atom.
RECURSIVE PatternOk(_, _, _)
PatternOk(body, i, depth) ==
    IF i > Len(body) THEN depth = 0
    ELSE LET c == body[i]
             prev == IF i = 1 THEN "(" ELSE body[i - 1]
         IN  CASE c = "(" -> PatternOk(body, i + 1, depth + 1)
               [] c = ")" -> depth > 0 /\ PatternOk(body, i + 1, depth - 1)
               [] c \in {"*", "+"} ->
                    prev \notin {"(", "*", "+"} /\ PatternOk(body, i + 1, depth)
               [] OTHER -> PatternOk(body, i + 1, depth)

\* prevOperand: the previous token ends an operand, so that "/" divides.
RECURSIVE Lex(_, _, _, _)
Lex(s, i, prevOperand, acc) ==
    IF i > Len(s) THEN [ok |-> TRUE, toks |-> acc]
    ELSE
      LET c == s[i]
          nx == IF i < Len(s) THEN s[i + 1] ELSE ""
      IN  CASE IsDigit(c) \/ (c = "." /\ IsDigit(nx)) ->
                 LET e == NumEnd(s, i)
                     lit == SubSeq(s, i, e - 1)
                 IN  IF LegacyOctal(lit) THEN LexError
                     ELSE Lex(s, e, TRUE,
                              Append(acc, Tok("num", "", NumLiteralValue(lit))))
            [] c = "." -> LexError            \* member access without a name
            [] c = "/" /\ nx = "/" -> LexError \* comment hides the closing ")"
            [] c = "/" /\ nx = "*" ->
                 LET j == CommentEnd(s, i + 2)
                 IN  IF j = 0 THEN LexError ELSE Lex(s, j, prevOperand, acc)
            [] c = "/" /\ nx # "/" /\ nx # "*" /\ prevOperand ->
                 Lex(s, i + 1, FALSE, Append(acc, Tok("op", "/", NaN)))
            [] c = "/" /\ nx # "/" /\ nx # "*" /\ ~prevOperand ->
                 LET j == NextSlash(s, i + 1)
                 IN  IF j = 0 THEN LexError   \* unterminated literal
                     ELSE IF j < Len(s) /\ IsDigit(s[j + 1]) THEN LexError \* flags
                     ELSE IF ~PatternOk(SubSeq(s, i + 1, j - 1), 1, 0) THEN LexError
                     ELSE Lex(s, j + 1, TRUE, Append(acc, Tok("re", "", Obj)))
            [] c \in {"+", "-"} ->
                 IF nx = c THEN LexError      \* ++ and -- need an assignable operand
                 ELSE Lex(s, i + 1, FALSE, Append(acc, Tok("op", c, NaN)))
            [] c = "*" ->
                 IF nx = "*"
                 THEN Lex(s, i + 2, FALSE, Append(acc, Tok("op", "**", NaN)))
                 ELSE Lex(s, i + 1, FALSE, Append(acc, Tok("op", "*", NaN)))
            [] c = "(" -> Lex(s, i + 1, FALSE, Append(acc, Tok("lp", "(", NaN)))
            [] c = ")" -> Lex(s, i + 1, TRUE, Append(acc, Tok("rp", ")", NaN)))
            [] OTHER -> LexError

(***************************************************************************)
(* The expression grammar: additive, multiplicative, exponentiation (right *)
(* associative, no unary operator directly on its base), unary, call,      *)
(* primary.  A parse result is [ok, v, p]: the value and the next index.   *)
(***************************************************************************)
ParseFail == [ok |-> FALSE, v |-> NaN, p |-> 0]
Parsed(v, p) == [ok |-> TRUE, v |-> v, p |-> p]
IsOp(toks, p, ops) == p <= Len(toks) /\ toks[p].t = "op" /\ toks[p].c \in ops

RECURSIVE ParseAdditive(_, _)
RECURSIVE ParseAdditiveRest(_, _)
RECURSIVE ParseMultiplicative(_, _)
RECURSIVE ParseMultiplicativeRest(_, _)
RECURSIVE ParseExponentiation(_, _)
RECURSIVE ParseUnary(_, _)
RECURSIVE ParseCall(_, _)
RECURSIVE ParsePrimary(_, _)

ParsePrimary(toks, p) ==
    IF p > Len(toks) THEN ParseFail
    ELSE CASE toks[p].t \in {"num", "re"} -> Parsed(toks[p].v, p + 1)
           [] toks[p].t = "lp" ->
                LET Close(e) ==
                        IF e.ok /\ e.p <= Len(toks) /\ toks[e.p].t = "rp"
                        THEN Parsed(e.v, e.p + 1)
                        ELSE ParseFail
                IN  Close(ParseAdditive(toks, p + 1))
           [] OTHER -> ParseFail

\* A "(" after an operand is a call: no value here is callable (TypeError).
ParseCall(toks, p) ==
    LET Call(m) ==
            IF m.ok /\ m.p <= Len(toks) /\ toks[m.p].t = "lp" THEN ParseFail ELSE m
    IN  Call(ParsePrimary(toks, p))

ParseUnary(toks, p) ==
    IF IsOp(toks, p, {"+", "-"})
    THEN LET Apply(u) ==
                 IF ~u.ok THEN ParseFail
                 ELSE IF toks[p].c = "-" THEN Parsed(NegV(u.v), u.p)
                 ELSE Parsed(ToNumeric(u.v), u.p)
         IN  Apply(ParseUnary(toks, p + 1))
    ELSE ParseCall(toks, p)

ParseExponentiation(toks, p) ==
    IF IsOp(toks, p, {"+", "-"})
    THEN LET Base(u) == IF u.ok /\ IsOp(toks, u.p, {"**"}) THEN ParseFail ELSE u
         IN  Base(ParseUnary(toks, p))
    ELSE LET Power(b, e) == IF e.ok THEN Parsed(PowV(b.v, e.v), e.p) ELSE ParseFail
             Base(b) ==
                 IF b.ok /\ IsOp(toks, b.p, {"**"})
                 THEN Power(b, ParseExponentiation(toks, b.p + 1))
                 ELSE b
         IN  Base(ParseCall(toks, p))

ParseMultiplicativeRest(toks, left) ==
    IF left.ok /\ IsOp(toks, left.p, {"*", "/"})
    THEN LET Apply(r) ==
                 IF ~r.ok THEN ParseFail
                 ELSE ParseMultiplicativeRest(toks,
                        Parsed(IF toks[left.p].c = "*" THEN MulV(left.v, r.v)
                               ELSE DivV(left.v, r.v), r.p))
         IN  Apply(ParseExponentiation(toks, left.p + 1))
    ELSE left

ParseMultiplicative(toks, p) ==
    ParseMultiplicativeRest(toks, ParseExponentiation(toks, p))

ParseAdditiveRest(toks, left) ==
    IF left.ok /\ IsOp(toks, left.p, {"+", "-"})
    THEN LET Apply(r) ==
                 IF ~r.ok THEN ParseFail
                 ELSE ParseAdditiveRest(toks,
                        Parsed(IF toks[left.p].c = "+" THEN AddV(left.v, r.v)
                               ELSE SubV(left.v, r.v), r.p))
         IN  Apply(ParseMultiplicative(toks, left.p + 1))
    ELSE left

ParseAdditive(toks, p) == ParseAdditiveRest(toks, ParseMultiplicative(toks, p))

\* Function(`'use strict'; return (${cleaned})`)(): the value, or a throw
\* (SyntaxError at construction, TypeError at the call).
EvalJS(cleaned) ==
    LET Threw == [threw |-> TRUE, v |-> NaN]
        Value(toks, r) ==
            IF r.ok /\ r.p = Len(toks) + 1 THEN [threw |-> FALSE, v |-> r.v]
            ELSE Threw
        Run(lx) == IF lx.ok THEN Value(lx.toks, ParseAdditive(lx.toks, 1)) ELSE Threw
    IN  Run(Lex(cleaned, 1, FALSE, <<>>))

(***************************************************************************)
(* Tool results: {success, data} or {success, error}.  keys is the set of  *)
(* properties the returned object literal has.                             *)
(***************************************************************************)
NoData == [none |-> TRUE]
SuccessResult(data) ==
    [success |-> TRUE, keys |-> {"success", "data"}, data |-> data, error |-> ""]
\* A failure that does not say what went wrong.
FailureWithoutError(message) ==
    [success |-> FALSE, keys |-> {"success"}, data |-> NoData, error |-> ""]
FailureResult(message) ==
    [success |-> FALSE, keys |-> {"success", "error"}, data |-> NoData,
     error |-> message]
NoResult == [success |-> FALSE, keys |-> {}, data |-> NoData, error |-> ""]
NoResponse == [returned |-> FALSE]
DEFAULT_PROVIDER == "openrouter"
DEFAULT_MODEL == "z-ai/glm-4.6"

\* The state of the page when Home is mounted.
HomeMounted ==
    /\ messages = <<>>
    /\ isLoading = FALSE
    /\ selectedProvider = DEFAULT_PROVIDER
    /\ selectedModel = DEFAULT_MODEL
    /\ inFlight = {}
    /\ sent = 0

\* No orchestrator is running: the tool execution function is called directly.
DirectCall ==
    /\ HomeMounted
    /\ providerCalls = 0
    /\ toolResults = <<>>
    /\ toolsUsed = <<>>
    /\ pending = <<>>
    /\ chatResponse = NoResponse

\* A thrown value: an Error with a message, or something that is no Error.
ErrorThrown(message) == [isError |-> TRUE, message |-> message]
NonErrorThrown == [isError |-> FALSE, message |-> ""]
\* error instanceof Error ? error.message : fallback
CatchMessage(thrown, fallback) ==
    IF thrown.isError THEN thrown.message ELSE fallback

(***************************************************************************)
(* calculate: safeEvaluate and executeCalculationTool.                     *)
(***************************************************************************)
NoCall == <<"<not called>">>

\* expression.replace(/\s+/g, '')
RemoveWhitespace(s) == SelectSeq(s, LAMBDA c : c \notin WhitespaceChars)

\* s.trim()
RECURSIVE TrimLeft(_)
TrimLeft(s) ==
    IF s # <<>> /\ s[1] \in WhitespaceChars THEN TrimLeft(Tail(s)) ELSE s
RECURSIVE TrimRight(_)
TrimRight(s) ==
    IF s # <<>> /\ s[Len(s)] \in WhitespaceChars
    THEN TrimRight(SubSeq(s, 1, Len(s) - 1)) ELSE s
Trim(s) == TrimRight(TrimLeft(s))

\* /^[0-9+\-*/.()]+$/.test(cleaned)
MatchesAllowedChars(cleaned) ==
    cleaned # <<>> /\ \A i \in 1..Len(cleaned) : cleaned[i] \in AllowedChars

\* The parenthesis counter: depth after the first i characters.
RECURSIVE ParenCount(_, _)
ParenCount(s, i) ==
    IF i = 0 THEN 0
    ELSE ParenCount(s, i - 1)
           + (IF s[i] = "(" THEN 1 ELSE IF s[i] = ")" THEN -1 ELSE 0)

\* As ParensBalanced, without the test inside the loop.
ParensBalancedAtEndOnly(cleaned) == ParenCount(cleaned, Len(cleaned)) = 0

ParensBalanced(cleaned) ==
    /\ \A i \in 1..Len(cleaned) : ParenCount(cleaned, i) >= 0
    /\ ParenCount(cleaned, Len(cleaned)) = 0

\* /[+\-*\/]{2,}(?![0-9])/.test(cleaned): a run of two or more operator
\* characters, some prefix of which (of length >= 2) is not followed by a digit.
MatchesInvalidOperators(cleaned) ==
    \E i \in 1..Len(cleaned) : \E j \in (i + 1)..Len(cleaned) :
        /\ \A k \in i..j : cleaned[k] \in OperatorChars
        /\ (j = Len(cleaned) \/ ~IsDigit(cleaned[j + 1]))

\* As IsFiniteNumber, without the isFinite test.
IsNumberOnly(v) == v.k \in {"num", "fin", "inf", "nan"}

\* typeof result !== 'number' || !isFinite(result)
IsFiniteNumber(v) == v.k \in {"num", "fin"}

Returned(v, arg) == [threw |-> FALSE, message |-> "", v |-> v, arg |-> arg]
Threw(message, arg) == [threw |-> TRUE, message |-> message, v |-> NaN, arg |-> arg]

\* safeEvaluate: returns a number or throws; arg is what Function(...) received.
safeEvaluate(expr) ==
    LET cleaned == RemoveWhitespace(expr)
    IN  IF ~MatchesAllowedChars(cleaned)
        THEN Threw("Expression contains invalid characters", NoCall)
        ELSE IF ~ParensBalanced(cleaned)
        THEN Threw("Unbalanced parentheses", NoCall)
        ELSE IF MatchesInvalidOperators(cleaned)
        THEN Threw("Invalid operator sequence", NoCall)
        ELSE LET Check(r) ==
                     IF r.threw \/ ~IsFiniteNumber(r.v)
                     THEN Threw("Failed to evaluate expression", cleaned)
                     ELSE Returned(r.v, cleaned)
             IN  Check(EvalJS(cleaned))

\* executeCalculationTool: [result, arg].
executeCalculationTool(expr, descr) ==
    IF Len(Trim(expr)) = 0
    THEN [result |-> FailureResult("Expression cannot be empty"), arg |-> NoCall]
    ELSE IF Len(Trim(descr)) = 0
    THEN [result |-> FailureResult("Description cannot be empty"), arg |-> NoCall]
    ELSE LET Result(e) ==
                 IF e.threw
                 THEN [result |-> FailureResult(e.message), arg |-> e.arg]
                 ELSE [result |-> SuccessResult([expression |-> Trim(expr),
                                                 result |-> e.v,
                                                 description |-> Trim(descr)]),
                       arg |-> e.arg]
         IN  Result(safeEvaluate(expr))

(***************************************************************************)
(* Specification of the calculation tool: any expression of up to          *)
(* MaxExprLen characters, then one call.                                   *)
(***************************************************************************)
RECURSIVE SeqsUpTo(_, _)
SeqsUpTo(S, n) ==
    IF n = 0 THEN {<<>>}
    ELSE LET shorter == SeqsUpTo(S, n - 1)
         IN  shorter \cup {Append(s, c) : s \in {t \in shorter : Len(t) = n - 1}, c \in S}

Expressions == SeqsUpTo(ExprAlphabet, MaxExprLen)
Descriptions == {<<"d">>, << >>, <<" ">>}

NoEnv == [none |-> TRUE]

InitCalc ==
    /\ pc = "calculate"
    /\ args \in [tool : {"calculate"}, expression : Expressions,
                 description : Descriptions]
    /\ (args.description # <<"d">> => Len(args.expression) <= 1)
    /\ env = NoEnv
    /\ functionArg = NoCall
    /\ fetchCalls = 0
    /\ toolResult = NoResult
    /\ DirectCall

Calculate ==
    /\ pc = "calculate"
    /\ LET Return(r) == toolResult' = r.result /\ functionArg' = r.arg
       IN  Return(executeCalculationTool(args.expression, args.description))
    /\ pc' = "done"
    /\ UNCHANGED <<pageVars, args, env, fetchCalls, providerCalls, chatVars>>

NextCalc == Calculate

SpecCalc == InitCalc /\ [][NextCalc]_vars

\* The model classifies every value it computes.
NoUnknownValue ==
    pc = "done" /\ functionArg # NoCall => EvalJS(functionArg).v.k # "unk"


(***************************************************************************)
(* Properties of the calculation tool (specification SpecCalc).            *)
(***************************************************************************)
ArithmeticChars ==
    {"0", "1", "2", "3", "4", "5", "6", "7", "8", "9", ".", "+", "-", "*", "/", "(", ")"}
StripBlanks(s) == SelectSeq(s, LAMBDA c : c # " ")
OnlyArithmeticChars(s) == \A i \in 1..Len(s) : s[i] \in ArithmeticChars
Opens(s, k) == Cardinality({i \in 1..k : s[i] = "("})
Closes(s, k) == Cardinality({i \in 1..k : s[i] = ")"})
WellNested(s) ==
    /\ \A k \in 1..Len(s) : Closes(s, k) <= Opens(s, k)
    /\ Closes(s, Len(s)) = Opens(s, Len(s))
HasAdjacentOperators(s) ==
    \E i \in 1..(Len(s) - 1) : s[i] \in {"+", "-", "*", "/"} /\ s[i + 1] \in {"+", "-", "*", "/"}
\* Two or more operator characters in a row with no digit right after them.
OperatorRunBeforeNonDigit(s) ==
    \E i \in 1..Len(s) : \E j \in (i + 1)..Len(s) :
        /\ \A k \in i..j : s[k] \in {"+", "-", "*", "/"}
        /\ (j = Len(s) \/ s[j + 1] \notin {"0", "1", "2", "3", "4", "5", "6", "7", "8", "9"})
DescriptionGiven == StripBlanks(args.description) # <<>>

\* C7: Function(...) only ever receives the whitespace-free expression, made of
\* digits . + - * / ( ) alone and with balanced parentheses (no ")" before its
\* "("); an expression with another character or unbalanced parentheses gets a
\* failure result without Function being called.
C7_OnlyWhitelistedTextIsEvaluated ==
    pc = "done" =>
        /\ functionArg # NoCall =>
              /\ functionArg = StripBlanks(args.expression)
              /\ functionArg # <<>>
              /\ OnlyArithmeticChars(functionArg)
              /\ WellNested(functionArg)
        /\ (~OnlyArithmeticChars(StripBlanks(args.expression))
               \/ ~WellNested(StripBlanks(args.expression))) =>
              /\ ~toolResult.success
              /\ "error" \in toolResult.keys
              /\ functionArg = NoCall

\* ")2(" has as many "(" as ")" and is rejected before evaluation; "(2)" is
\* evaluated.
C7_Witness ==
    \/ /\ pc = "done" /\ args.expression = <<")", "2", "(">>
       /\ DescriptionGiven /\ ~toolResult.success /\ functionArg = NoCall
    \/ /\ pc = "done" /\ args.expression = <<"a", "(", "2", ")">>
       /\ DescriptionGiven /\ ~toolResult.success /\ functionArg = NoCall

PlainInteger(s) ==
    /\ s # <<>>
    /\ \A i \in 1..Len(s) : s[i] \in {"0", "1", "2", "3", "4", "5", "6", "7", "8", "9"}
    /\ (Len(s) > 1 => s[1] # "0")
AllZeros(s) == \A i \in 1..Len(s) : s[i] = "0"
\* integer, one operator, integer; no division by zero.
SingleOperation(s) ==
    \E i \in 2..(Len(s) - 1) :
        /\ s[i] \in {"+", "-", "*", "/"}
        /\ PlainInteger(SubSeq(s, 1, i - 1))
        /\ PlainInteger(SubSeq(s, i + 1, Len(s)))
        /\ (s[i] = "/" => ~AllZeros(SubSeq(s, i + 1, Len(s))))

AdjacentOperatorsPastLeadingMinus(s) ==
    \E i \in 1..(Len(s) - 1) :
        /\ s[i] \in {"+", "-", "*", "/"}
        /\ s[i + 1] \in {"+", "-", "*", "/"}
        /\ ~(i = 1 /\ s[1] = "-")

\* C9 as stated: an expression with two or more consecutive operator characters
\* is rejected, a unary minus at the very start of the expression apart.
C9_AdjacentOperatorsRejected ==
    pc = "done" /\ AdjacentOperatorsPastLeadingMinus(StripBlanks(args.expression))
        => ~toolResult.success


(***************************************************************************)
(* Decimal numbers m * 10^e (arguments and prices) and Number's            *)
(* conversion to a string, used by the template literals.                  *)
(***************************************************************************)
Dec(m, e) == [m |-> m, e |-> e]

\* The same number with no trailing zero in m.
RECURSIVE DecNorm(_)
DecNorm(x) ==
    IF x.m # 0 /\ x.m % 10 = 0 THEN DecNorm(Dec(x.m \div 10, x.e + 1))
    ELSE IF x.m = 0 THEN Dec(0, 0) ELSE x

DecMul(x, y) == DecNorm(Dec(x.m * y.m, x.e + y.e))

DigitChar(d) ==
    CASE d = 0 -> "0" [] d = 1 -> "1" [] d = 2 -> "2" [] d = 3 -> "3"
      [] d = 4 -> "4" [] d = 5 -> "5" [] d = 6 -> "6" [] d = 7 -> "7"
      [] d = 8 -> "8" [] d = 9 -> "9"

RECURSIVE DigitsOf(_)
DigitsOf(m) ==
    IF m < 10 THEN <<DigitChar(m)>>
    ELSE Append(DigitsOf(m \div 10), DigitChar(m % 10))

ZeroChars(n) == [i \in 1..n |-> "0"]

\* Number::toString(10) of a positive number: with k digits and the decimal
\* point after the n-th, plain notation for -6 < n <= 21, exponential otherwise.
PositiveToString(x0) ==
    LET x == DecNorm(x0)
        ds == DigitsOf(x.m)
        k == Len(ds)
        n == k + x.e
    IN  IF k <= n /\ n <= 21 THEN ds \o ZeroChars(n - k)
        ELSE IF 0 < n /\ n <= 21
        THEN SubSeq(ds, 1, n) \o <<".">> \o SubSeq(ds, n + 1, k)
        ELSE IF -6 < n /\ n <= 0 THEN <<"0", ".">> \o ZeroChars(-n) \o ds
        ELSE <<ds[1]>>
               \o (IF k > 1 THEN <<".">> \o SubSeq(ds, 2, k) ELSE <<>>)
               \o <<"e", (IF n - 1 >= 0 THEN "+" ELSE "-")>>
               \o DigitsOf(Abs(n - 1))

NumberToString(x) ==
    IF x.m = 0 THEN <<"0">>
    ELSE IF x.m < 0 THEN <<"-">> \o PositiveToString(Dec(-x.m, x.e))
    ELSE PositiveToString(x)

(***************************************************************************)
(* get_weight_value: convertToGrams and executeWeightValueTool.            *)
(***************************************************************************)
ValidMetals == {"XAU", "XAG", "XPT", "XPD"}

\* KARAT_FIELD_MAP; "" when the karat is no key of it.
KaratField(karat) ==
    CASE karat = "24k" -> "price_gram_24k" [] karat = "22k" -> "price_gram_22k"
      [] karat = "21k" -> "price_gram_21k" [] karat = "20k" -> "price_gram_20k"
      [] karat = "18k" -> "price_gram_18k" [] karat = "16k" -> "price_gram_16k"
      [] karat = "14k" -> "price_gram_14k" [] karat = "10k" -> "price_gram_10k"
      [] OTHER -> ""

UpperChars == <<"A", "B", "C", "D", "E", "F", "G", "H", "I", "J", "K", "L", "M",
                "N", "O", "P", "Q", "R", "S", "T", "U", "V", "W", "X", "Y", "Z">>
LowerChars == <<"a", "b", "c", "d", "e", "f", "g", "h", "i", "j", "k", "l", "m",
                "n", "o", "p", "q", "r", "s", "t", "u", "v", "w", "x", "y", "z">>
ToLowerChar(c) ==
    IF \E i \in 1..26 : UpperChars[i] = c
    THEN LowerChars[CHOOSE i \in 1..26 : UpperChars[i] = c]
    ELSE c
ToLowerCase(s) == [i \in 1..Len(s) |-> ToLowerChar(s[i])]

GramsPerTroyOunce == Dec(311035, -4)
GramsPerKilogram == Dec(1000, 0)

\* convertToGrams: [threw, grams].
convertToGrams(weight, unit) ==
    LET normalizedUnit == Trim(ToLowerCase(unit))
    IN  CASE normalizedUnit \in {<<"g">>, <<"g", "r", "a", "m", "s">>} ->
               [threw |-> FALSE, grams |-> weight]
          [] normalizedUnit \in {<<"o", "z">>, <<"o", "u", "n", "c", "e", "s">>,
                                 <<"t", "r", "o", "y", "_", "o", "u", "n", "c", "e", "s">>} ->
               [threw |-> FALSE, grams |-> DecMul(weight, GramsPerTroyOunce)]
          [] normalizedUnit \in {<<"k", "g">>,
                                 <<"k", "i", "l", "o", "g", "r", "a", "m", "s">>} ->
               [threw |-> FALSE, grams |-> DecMul(weight, GramsPerKilogram)]
          [] OTHER -> [threw |-> TRUE, grams |-> weight]

\* A price field missing from the payload (undefined), and one that parsed to
\* Infinity (a JSON number past the double range).
MissingPrice == [m |-> 0, e |-> 0, undefined |-> TRUE]
InfinitePrice == [m |-> 1, e |-> 0, infinite |-> TRUE]
IsMissing(price) == price = MissingPrice
IsFinitePrice(price) == price # InfinitePrice

WeightOutcome(result, fetched, arg) ==
    [result |-> result, fetched |-> fetched, arg |-> arg]

CalculationDescription == <<"v", "a", "l", "u", "e">>

\* executeWeightValueTool.  upstream is what fetch does once called:
\*   [kind |-> "reject"]             fetch rejects (network failure)
\*   [kind |-> "status"]             a response that is not ok
\*   [kind |-> "badjson"]            response.json() rejects
\*   [kind |-> "null"]               the JSON value null
\*   [kind |-> "payload", fields]    an object with these price fields
executeWeightValueTool(a, e) ==
    IF a.metal \notin ValidMetals
    THEN WeightOutcome(FailureResult("Invalid metal"), 0, NoCall)
    ELSE IF a.weight.m <= 0
    THEN WeightOutcome(FailureResult("Weight must be a positive number."), 0, NoCall)
    ELSE IF ~e.apiKeySet
    THEN WeightOutcome(FailureResult("GOLDAPI_KEY environment variable is not set"),
                       0, NoCall)
    ELSE CASE e.upstream.kind = "reject" ->
                WeightOutcome(FailureResult(
                    CatchMessage(e.upstream.thrown, "Unknown error occurred")), 1, NoCall)
           [] e.upstream.kind = "status" ->
                WeightOutcome(FailureResult("Gold API request failed"), 1, NoCall)
           [] e.upstream.kind = "badjson" ->
                WeightOutcome(FailureResult(
                    CatchMessage(e.upstream.thrown, "Unknown error occurred")), 1, NoCall)
           [] OTHER ->
                LET karatToUse == IF a.karat = "" THEN "24k" ELSE a.karat
                    useKarat == a.metal = "XAU" /\ a.karat # ""
                    fieldName == IF useKarat THEN KaratField(karatToUse)
                                 ELSE "price_gram_24k"
                IN  IF useKarat /\ fieldName = ""
                    THEN WeightOutcome(FailureResult("Invalid karat"), 1, NoCall)
                    ELSE IF e.upstream.kind = "null"
                    THEN WeightOutcome(FailureResult(
                             "Cannot read properties of null"), 1, NoCall)
                    ELSE
                    LET pricePerGram == e.upstream.fields[fieldName]
                        Valued(calcExpression, calculationResult) ==
                            IF ~calculationResult.result.success
                                \/ "data" \notin calculationResult.result.keys
                            THEN WeightOutcome(FailureResult("Calculation failed"),
                                               1, calculationResult.arg)
                            ELSE WeightOutcome(SuccessResult(
                                     [metal |-> a.metal,
                                      weight |-> a.weight,
                                      unit |-> a.unit,
                                      karat |-> IF a.metal = "XAU" THEN karatToUse ELSE "",
                                      pricePerUnit |-> pricePerGram,
                                      totalValue |-> calculationResult.result.data.result,
                                      currency |-> a.currency,
                                      calculationExpression |-> calcExpression]),
                                   1, calculationResult.arg)
                        Calculated(calcExpression) ==
                            Valued(calcExpression,
                                   executeCalculationTool(calcExpression,
                                                          CalculationDescription))
                        Converted(conv) ==
                            IF conv.threw
                            THEN WeightOutcome(FailureResult("Unsupported unit"), 1, NoCall)
                            ELSE IF conv.grams.m <= 0
                            THEN WeightOutcome(FailureResult("Invalid weight conversion"),
                                               1, NoCall)
                            ELSE Calculated(NumberToString(conv.grams) \o <<" ", "*", " ">>
                                              \o NumberToString(pricePerGram))
                    IN  IF IsMissing(pricePerGram) \/ pricePerGram.m <= 0
                           \/ ~IsFinitePrice(pricePerGram)
                        THEN WeightOutcome(FailureResult(
                                 "Invalid price data received from API"), 1, NoCall)
                        ELSE Converted(convertToGrams(a.weight, a.unit))

(***************************************************************************)
(* Specification of one get_weight_value call.                             *)
(***************************************************************************)
Metals == {"XAU", "XAG", "XXX"}
\* 2, 0.5, 0.0000001 and 1e21, and the non-positive 0 and -1.
Weights == {Dec(2, 0), Dec(5, -1), Dec(1, -7), Dec(1, 21), Dec(0, 0), Dec(-1, 0)}
Ounces == <<"o", "z">>
Units == {<<"g">>, Ounces, <<"k", "g">>, <<" ", "G">>, <<"l", "b">>}
\* "" is an omitted karat.
Karats == {"", "24k", "18k", "9k"}
\* 65.5, 49, 0.0000001, and the values the price validation refuses.
Prices == {Dec(655, -1), Dec(49, 0), Dec(1, -7), Dec(0, 0), Dec(-1, 0),
           MissingPrice, InfinitePrice}
PriceFields == {"price_gram_24k", "price_gram_22k", "price_gram_21k",
                "price_gram_20k", "price_gram_18k", "price_gram_16k",
                "price_gram_14k", "price_gram_10k"}
\* An upstream JSON object; price and ask are the other fields get_spot_price
\* reads.
Payload(price, p24, p18) ==
    [f \in PriceFields \cup {"price", "ask"} |->
        CASE f = "price" -> price
          [] f = "price_gram_24k" -> p24
          [] f = "price_gram_18k" -> p18
          [] OTHER -> MissingPrice]
Thrown == {ErrorThrown("fetch failed"), NonErrorThrown}
Upstreams ==
    {[kind |-> k, thrown |-> t] : k \in {"reject", "badjson"}, t \in Thrown}
      \cup {[kind |-> "status"], [kind |-> "null"]}
      \cup {[kind |-> "payload", fields |-> Payload(price, p24, p18)] :
              price \in {Dec(2037, 0), MissingPrice},
              p24 \in Prices, p18 \in {Dec(49, 0), MissingPrice}}

InitWeightValue ==
    /\ pc = "weight_value"
    /\ args \in [tool : {"get_weight_value"}, metal : Metals, weight : Weights,
                 unit : Units, karat : Karats, currency : {"USD"}]
    \* 0.0000001 oz is 0.00000311035 g, more decimals than literals are
    \* evaluated exactly with.
    /\ ~(args.weight = Dec(1, -7) /\ args.unit = Ounces)
    /\ env \in [apiKeySet : BOOLEAN, upstream : Upstreams]
    /\ functionArg = NoCall
    /\ fetchCalls = 0
    /\ toolResult = NoResult
    /\ DirectCall

WeightValue ==
    /\ pc = "weight_value"
    /\ LET Return(r) ==
               /\ toolResult' = r.result
               /\ fetchCalls' = fetchCalls + r.fetched
               /\ functionArg' = r.arg
       IN  Return(executeWeightValueTool(args, env))
    /\ pc' = "done"
    /\ UNCHANGED <<pageVars, args, env, providerCalls, chatVars>>

NextWeightValue == WeightValue
SpecWeightValue == InitWeightValue /\ [][NextWeightValue]_vars

(***************************************************************************)
(* Properties of get_weight_value.                                         *)
(***************************************************************************)
SupportedUnit(unit) ==
    Trim(ToLowerCase(unit)) \in {<<"g">>, <<"o", "z">>, <<"k", "g">>}
\* The exact factor from the unit to grams.
GramFactor(unit) ==
    LET u == Trim(ToLowerCase(unit))
    IN  IF u = <<"g">> THEN Num(1, 1)
        ELSE IF u = <<"o", "z">> THEN Num(311035, 10000) ELSE Num(1000, 1)
\* The exact rational value of a decimal that has one within the integers.
DecValue(x) ==
    IF x.e >= 0 THEN Num(x.m * Pow10(x.e), 1) ELSE Num(x.m, Pow10(-x.e))
SelectedPrice ==
    env.upstream.fields[IF args.metal = "XAU" /\ args.karat # ""
                        THEN KaratField(args.karat) ELSE "price_gram_24k"]
ValidWeightValueCall ==
    /\ pc = "done"
    /\ args.metal \in ValidMetals
    /\ args.weight.m > 0
    /\ SupportedUnit(args.unit)
    /\ (args.metal = "XAU" /\ args.karat # "" => KaratField(args.karat) # "")
    /\ env.apiKeySet
    /\ env.upstream.kind = "payload"
    /\ ~IsMissing(SelectedPrice) /\ IsFinitePrice(SelectedPrice)
    /\ SelectedPrice.m > 0

\* C10: for a valid metal, a positive weight, a supported unit and karat and a
\* payload whose selected per-gram price is positive and finite, the tool
\* succeeds and totalValue is the weight in grams times that price.
C10_TotalValueIsGramsTimesPrice ==
    ValidWeightValueCall =>
        /\ toolResult.success
        /\ toolResult.data.totalValue =
             MulV(MulV(DecValue(args.weight), GramFactor(args.unit)),
                  DecValue(SelectedPrice))

\* Where the tool does succeed, the total is that product.
WeightValueSuccessIsExact ==
    ValidWeightValueCall /\ toolResult.success =>
        toolResult.data.totalValue =
            MulV(MulV(DecValue(args.weight), GramFactor(args.unit)),
                 DecValue(SelectedPrice))
WeightValueEvaluationTracked ==
    pc = "done" /\ functionArg # NoCall => EvalJS(functionArg).v.k \in {"num"}


(***************************************************************************)
(* get_spot_price: executeSpotPriceTool.                                   *)
(***************************************************************************)
\* a || b on price fields: undefined and 0 are falsy.
OrElse(a, b) == IF IsMissing(a) \/ a.m = 0 THEN b ELSE a

\* executeSpotPriceTool: [result, fetched].  Every throw is inside the try.
executeSpotPriceTool(a, e) ==
    IF ~e.apiKeySet
    THEN [result |-> FailureResult("GOLDAPI_KEY environment variable is not set"),
          fetched |-> 0]
    ELSE CASE e.upstream.kind \in {"reject", "badjson"} ->
                [result |-> FailureResult(
                     CatchMessage(e.upstream.thrown, "Unknown error occurred")),
                 fetched |-> 1]
           [] e.upstream.kind = "status" ->
                [result |-> FailureResult("goldapi.io request failed"), fetched |-> 1]
           [] e.upstream.kind = "null" ->
                [result |-> FailureResult("Cannot read properties of null"),
                 fetched |-> 1]
           [] OTHER ->
                [result |-> SuccessResult(
                     [metal |-> a.metal,
                      price |-> OrElse(e.upstream.fields["price"],
                                   OrElse(e.upstream.fields["price_gram_24k"],
                                          e.upstream.fields["ask"])),
                      currency |-> a.currency,
                      rawData |-> e.upstream.fields]),
                 fetched |-> 1]

(***************************************************************************)
(* search_metal_news: executeWebSearchTool, which asks the LLM provider.   *)
(***************************************************************************)
RECURSIVE Flatten(_)
Flatten(ss) == IF ss = <<>> THEN <<>> ELSE Head(ss) \o Flatten(Tail(ss))

\* [...new Set(sources)]
RECURSIVE Unique(_)
Unique(xs) ==
    IF xs = <<>> THEN <<>>
    ELSE LET front == Unique(SubSeq(xs, 1, Len(xs) - 1))
             last == xs[Len(xs)]
         IN  IF \E i \in 1..Len(front) : front[i] = last THEN front
             ELSE Append(front, last)

TextBlocks(content) == SelectSeq(content, LAMBDA block : block.type = "text")
\* The texts of the text blocks, in order (what += and join(' ') put together).
TextOf(content) ==
    LET texts == TextBlocks(content) IN [i \in 1..Len(texts) |-> texts[i].text]

\* executeWebSearchTool: [result, requested]; e.search is what
\* anthropic.messages.create does.
executeWebSearchTool(a, e) ==
    IF e.search.kind = "reject"
    THEN [result |-> FailureResult(
              CatchMessage(e.search.thrown, "Unknown error occurred during web search")),
          requested |-> 1]
    ELSE [result |-> SuccessResult(
              [query |-> IF a.timeframe # "" THEN <<a.query, a.timeframe>>
                         ELSE <<a.query>>,
               results |-> TextOf(e.search.content),
               sources |-> LET texts == TextBlocks(e.search.content)
                           IN  Unique(Flatten([i \in 1..Len(texts) |-> texts[i].urls]))]),
          requested |-> 1]

(***************************************************************************)
(* Strings: comparison by code unit, and the matches of the patterns       *)
(* /(\d+)\s*word/ the period parsers use.                                  *)
(***************************************************************************)
CharCode(c) ==
    CASE c = "-" -> 45 [] c = "/" -> 47 [] IsDigit(c) -> 48 + DigitVal(c)
      [] c = "M" -> 77 [] OTHER -> 0

\* a < b on strings.
RECURSIVE StrLess(_, _)
StrLess(a, b) ==
    IF b = <<>> THEN FALSE
    ELSE IF a = <<>> THEN TRUE
    ELSE IF a[1] = b[1] THEN StrLess(Tail(a), Tail(b))
    ELSE CharCode(a[1]) < CharCode(b[1])

IsDigits(s) == s # <<>> /\ \A i \in 1..Len(s) : IsDigit(s[i])

\* word (lower case) stands at index j of s, whatever the case in s.
HasWordAt(s, j, word) ==
    /\ j + Len(word) - 1 <= Len(s)
    /\ ToLowerCase(SubSeq(s, j, j + Len(word) - 1)) = word
Includes(s, word) == \E j \in 1..Len(s) : HasWordAt(s, j, word)

\* First index of the longest run of characters of S that ends before j.
RECURSIVE RunStart(_, _, _)
RunStart(s, j, S) == IF j > 1 /\ s[j - 1] \in S THEN RunStart(s, j - 1, S) ELSE j

\* The digits (\d+) captures when \s*word matches at j.
DigitsBefore(s, j) ==
    SubSeq(s, RunStart(s, RunStart(s, j, WhitespaceChars), DigitChars),
           RunStart(s, j, WhitespaceChars) - 1)

\* The leftmost match of /(\d+)\s*word/i in s: [matched, n].
MatchCount(s, word) ==
    LET First(J) ==
            IF J = {} THEN [matched |-> FALSE, n |-> 0]
            ELSE [matched |-> TRUE,
                  n |-> DigitsValue(DigitsBefore(s,
                            CHOOSE j \in J : \A k \in J : j <= k))]
    IN  First({j \in 1..Len(s) : HasWordAt(s, j, word) /\ DigitsBefore(s, j) # <<>>})

\* The leftmost match of /(\d+)?\s*word/i in s: [matched, captured, n].
MatchOptionalCount(s, word) ==
    LET First(J) ==
            IF J = {} THEN [matched |-> FALSE, captured |-> FALSE, n |-> 0]
            ELSE LET Capture(digits) ==
                         [matched |-> TRUE, captured |-> digits # <<>>,
                          n |-> DigitsValue(digits)]
                 IN  Capture(DigitsBefore(s, CHOOSE j \in J : \A k \in J : j <= k))
    IN  First({j \in 1..Len(s) : HasWordAt(s, j, word)})


(***************************************************************************)
(* The data file data/precious_metals.json and utils.ts.                   *)
(***************************************************************************)
METAL_NAMES(metal) ==
    CASE metal = "XAU" -> "Gold" [] metal = "XAG" -> "Silver"
      [] metal = "XPT" -> "Platinum" [] metal = "XPD" -> "Palladium"
      [] OTHER -> ""

\* String(n).padStart(2, '0')
PadStart2(n) == IF n < 10 THEN <<"0">> \o DigitsOf(n) ELSE DigitsOf(n)

\* An entry of the file: its date is "MM/YYYY".
Entry(month, year, price) ==
    [date |-> PadStart2(month) \o <<"/">> \o DigitsOf(year), price |-> price]

MinOf(S) == CHOOSE x \in S : \A y \in S : x <= y

\* `${year}M${month}`
ExcelDate(year, month) == DigitsOf(year) \o <<"M">> \o DigitsOf(month)

NoDate == [threw |-> TRUE, date |-> <<>>]
\* convertJsonDateToInternal: /^(\d{2})\/(\d{4})$/, the month through parseInt.
convertJsonDateToInternal(jsonDate) ==
    IF /\ Len(jsonDate) = 7
       /\ IsDigits(SubSeq(jsonDate, 1, 2))
       /\ jsonDate[3] = "/"
       /\ IsDigits(SubSeq(jsonDate, 4, 7))
    THEN [threw |-> FALSE,
          date |-> SubSeq(jsonDate, 4, 7) \o <<"M">>
                     \o DigitsOf(DigitsValue(SubSeq(jsonDate, 1, 2)))]
    ELSE NoDate

\* convertToExcelDate: /^(\d{4})-(\d{1,2})$/, else /^\d{4}M\d{1,2}$/, else throws.
convertToExcelDate(dateStr) ==
    IF Len(dateStr) \in {6, 7} /\ IsDigits(SubSeq(dateStr, 1, 4))
         /\ IsDigits(SubSeq(dateStr, 6, Len(dateStr)))
    THEN IF dateStr[5] = "-"
         THEN [threw |-> FALSE,
               date |-> SubSeq(dateStr, 1, 4) \o <<"M">>
                          \o DigitsOf(DigitsValue(SubSeq(dateStr, 6, Len(dateStr))))]
         ELSE IF dateStr[5] = "M" THEN [threw |-> FALSE, date |-> dateStr]
         ELSE NoDate
    ELSE NoDate

latestDataYear == 2025
latestDataMonth == 9

\* The start date monthsBack months before the latest data, years borrowed
\* while the month is not positive.
StartMonthsBack(monthsBack) ==
    LET startMonth == latestDataMonth - monthsBack
        yearsBack == IF startMonth <= 0 THEN ((-startMonth) \div 12) + 1 ELSE 0
    IN  ExcelDate(latestDataYear - yearsBack, startMonth + 12 * yearsBack)

\* parseRelativePeriod of utils.ts: weeks (Math.round(weeks / 4.33) months),
\* then months, then years; [threw, startDate, endDate].
parseRelativePeriod(relativePeriod) ==
    LET Period(startDate) ==
            [threw |-> FALSE, startDate |-> startDate,
             endDate |-> ExcelDate(latestDataYear, latestDataMonth)]
        Years(m) ==
            IF m.matched
            THEN Period(ExcelDate(latestDataYear - (IF m.captured THEN m.n ELSE 1),
                                  latestDataMonth))
            ELSE [threw |-> TRUE, startDate |-> <<>>, endDate |-> <<>>]
        Months(m) ==
            IF m.matched THEN Period(StartMonthsBack(m.n))
            ELSE Years(MatchOptionalCount(relativePeriod, <<"y", "e", "a", "r">>))
        Weeks(m) ==
            IF m.matched THEN Period(StartMonthsBack((200 * m.n + 433) \div 866))
            ELSE Months(MatchCount(relativePeriod, <<"m", "o", "n", "t", "h">>))
    IN  Weeks(MatchCount(relativePeriod, <<"w", "e", "e", "k">>))

\* getMetalHistoricalData: [threw, data], data sorted by date.localeCompare.
getMetalHistoricalData(metal, file) ==
    IF file.kind # "data" THEN [threw |-> TRUE, data |-> <<>>]
    ELSE IF METAL_NAMES(metal) \notin DOMAIN file.data
    THEN [threw |-> TRUE, data |-> <<>>]
    ELSE LET Convert(entries) ==
                 IF \E i \in 1..Len(entries) :
                        convertJsonDateToInternal(entries[i].date).threw
                 THEN [threw |-> TRUE, data |-> <<>>]
                 ELSE [threw |-> FALSE,
                       data |-> SortSeq(
                           [i \in 1..Len(entries) |->
                               [date |-> convertJsonDateToInternal(entries[i].date).date,
                                price |-> entries[i].price]],
                           LAMBDA x, y : StrLess(x.date, y.date))]
         IN  Convert(file.data[METAL_NAMES(metal)])

\* calculateGrowth
calculateGrowth(startPrice, endPrice) ==
    [absoluteChange |-> endPrice - startPrice,
     percentageChange |-> MulV(DivV(Num(endPrice - startPrice, 1), Num(startPrice, 1)),
                               Num(100, 1)),
     direction |-> IF endPrice - startPrice > 0 THEN "increase"
                   ELSE IF endPrice - startPrice < 0 THEN "decrease"
                   ELSE "no change"]

(***************************************************************************)
(* get_historical_data: executeHistoricalDataTool.                         *)
(***************************************************************************)
\* The point with the requested start date, else the earliest of those at or
\* after it; 0 when there is none.
ClosestStart(data, date) ==
    LET Pick(exact, after) ==
            IF exact # {} THEN MinOf(exact)
            ELSE IF after = {} THEN 0
            ELSE CHOOSE i \in after :
                     \A k \in after : ~StrLess(data[k].date, data[i].date)
    IN  Pick({i \in 1..Len(data) : data[i].date = date},
             {i \in 1..Len(data) : ~StrLess(data[i].date, date)})

\* The point with the requested end date, else the latest of those at or
\* before it; 0 when there is none.
ClosestEnd(data, date) ==
    LET Pick(exact, before) ==
            IF exact # {} THEN MinOf(exact)
            ELSE IF before = {} THEN 0
            ELSE CHOOSE i \in before :
                     \A k \in before : ~StrLess(data[i].date, data[k].date)
    IN  Pick({i \in 1..Len(data) : data[i].date = date},
             {i \in 1..Len(data) : ~StrLess(date, data[i].date)})

\* The check is left out.
NeverSamePeriod(closestStart, closestEnd) == FALSE
\* closestStart.date === closestEnd.date
SamePeriod(closestStart, closestEnd) == closestStart.date = closestEnd.date

executeHistoricalDataTool(a, e) ==
    LET Report(data, s, t) ==
            IF s = 0 \/ t = 0
            THEN FailureResult("Could not find data for the requested date range")
            ELSE IF SamePeriod(data[s], data[t])
            THEN FailureResult("Start and end dates are the same")
            ELSE SuccessResult(
                     [metal |-> a.metal,
                      startDate |-> data[s].date,
                      endDate |-> data[t].date,
                      startPrice |-> data[s].price,
                      endPrice |-> data[t].price,
                      growth |-> calculateGrowth(data[s].price, data[t].price),
                      period |-> IF a.relativePeriod # <<>> THEN a.relativePeriod
                                 ELSE data[s].date \o <<" ">> \o data[t].date,
                      dataPoints |->
                          Cardinality({i \in 1..Len(data) :
                              /\ ~StrLess(data[i].date, data[s].date)
                              /\ ~StrLess(data[t].date, data[i].date)})])
        Analyse(data, startDate, endDate) ==
            Report(data, ClosestStart(data, startDate), ClosestEnd(data, endDate))
        Parsed2(data, parsed) ==
            IF parsed.threw THEN FailureResult("Unable to parse relative period")
            ELSE Analyse(data, parsed.startDate, parsed.endDate)
        Converted(data, from, to) ==
            IF from.threw \/ to.threw THEN FailureResult("Invalid date format")
            ELSE Analyse(data, from.date, to.date)
        Ranged(data) ==
            IF a.relativePeriod # <<>>
            THEN Parsed2(data, parseRelativePeriod(a.relativePeriod))
            ELSE IF a.startDate # <<>> /\ a.endDate # <<>>
            THEN Converted(data, convertToExcelDate(a.startDate),
                           IF ToLowerCase(a.endDate) = <<"n", "o", "w">>
                           THEN [threw |-> FALSE, date |-> data[Len(data)].date]
                           ELSE convertToExcelDate(a.endDate))
            ELSE FailureResult("Either provide specific start/end dates or a relative period")
        Loaded(h) ==
            IF h.threw THEN FailureResult("Failed to get historical data")
            ELSE IF h.data = <<>> THEN FailureResult("No historical data available")
            ELSE Ranged(h.data)
    IN  IF a.metal \notin ValidMetals THEN FailureResult("Invalid metal")
        ELSE Loaded(getMetalHistoricalData(a.metal, e.file))


(***************************************************************************)
(* get_time_chart_data: parseRelativePeriod and generateDateRange of       *)
(* definition.ts, and executeTimeChartDataTool.  A month is counted from   *)
(* year 0 (year * 12 + month - 1); the local time zone is taken to be UTC  *)
(* and the day of the month of "now" not to overflow a shorter month.      *)
(***************************************************************************)
\* `${getFullYear()}-${String(getMonth() + 1).padStart(2, '0')}`
FormatYearMonth(month) ==
    DigitsOf(month \div 12) \o <<"-">> \o PadStart2((month % 12) + 1)

\* new Date(text + '-01') as a month, -1 for an Invalid Date.
ParseYearMonth(text) ==
    IF /\ Len(text) \in {6, 7}
       /\ IsDigits(SubSeq(text, 1, 4))
       /\ text[5] = "-"
       /\ IsDigits(SubSeq(text, 6, Len(text)))
       /\ DigitsValue(SubSeq(text, 6, Len(text))) \in 1..12
    THEN DigitsValue(SubSeq(text, 1, 4)) * 12
           + DigitsValue(SubSeq(text, 6, Len(text))) - 1
    ELSE -1

\* parseRelativePeriod of definition.ts, relative to the wall clock's month.
parseRelativePeriodChart(relativePeriod, now) ==
    LET lowerPeriod == ToLowerCase(relativePeriod)
        Count(m, each, default) == IF m.matched THEN m.n * each ELSE default
        Weeks(m) == IF m.matched THEN (m.n + 3) \div 4 ELSE 3
        monthsBack ==
            IF Includes(lowerPeriod, <<"m", "o", "n", "t", "h">>)
            THEN Count(MatchCount(lowerPeriod, <<"m", "o", "n", "t", "h">>), 1, 12)
            ELSE IF Includes(lowerPeriod, <<"y", "e", "a", "r">>)
            THEN Count(MatchCount(lowerPeriod, <<"y", "e", "a", "r">>), 12, 12)
            ELSE IF Includes(lowerPeriod, <<"q", "u", "a", "r", "t", "e", "r">>)
            THEN Count(MatchCount(lowerPeriod, <<"q", "u", "a", "r", "t", "e", "r">>), 3, 3)
            ELSE IF Includes(lowerPeriod, <<"w", "e", "e", "k">>)
            THEN Weeks(MatchCount(lowerPeriod, <<"w", "e", "e", "k">>))
            ELSE 12
    IN  [startDate |-> FormatYearMonth(now - monthsBack),
         endDate |-> FormatYearMonth(now)]

\* The step rounded down.
SampleStepFloor(length, maxPoints) == length \div maxPoints
\* Math.ceil(months.length / maxPoints)
SampleStep(length, maxPoints) == (length + maxPoints - 1) \div maxPoints

\* generateDateRange: the months from start to end, sampled every
\* ceil(length / maxPoints) when there are more than maxPoints (every
\* Infinity-th, that is the first only, for maxPoints = 0).
generateDateRange(startDate, endDate, maxPoints) ==
    LET Sample(months) ==
            IF Len(months) > maxPoints
            THEN IF maxPoints = 0 THEN <<months[1]>>
                 ELSE LET Every(step) ==
                              [k \in 1..(((Len(months) - 1) \div step) + 1) |->
                                  months[(k - 1) * step + 1]]
                      IN  Every(SampleStep(Len(months), maxPoints))
            ELSE months
        Range(start, end) ==
            IF start = -1 \/ end = -1 \/ end < start THEN <<>>
            ELSE Sample([i \in 1..(end - start + 1) |-> FormatYearMonth(start + i - 1)])
    IN  Range(ParseYearMonth(startDate), ParseYearMonth(endDate))

\* jsonData[metalName].find(entry => entry.date === `${month}/${year}`):
\* the index, 0 when the metal or the month is not in the file.
FindEntry(data, metal, yearMonth) ==
    IF METAL_NAMES(metal) \notin DOMAIN data THEN 0
    ELSE LET Find(entries, jsonDateFormat) ==
                 LET found == {i \in 1..Len(entries) : entries[i].date = jsonDateFormat}
                 IN  IF found = {} THEN 0 ELSE MinOf(found)
         IN  Find(data[METAL_NAMES(metal)],
                  SubSeq(yearMonth, 6, Len(yearMonth)) \o <<"/">> \o SubSeq(yearMonth, 1, 4))

\* parseFloat(x.toFixed(2)) of a rational x: the nearest multiple of 0.01, the
\* one further from zero when two are as near.
RoundTo2(x) ==
    LET Nearest(q) == Num(IF x.n < 0 THEN -q ELSE q, 100)
    IN  Nearest((200 * Abs(x.n) + x.d) \div (2 * x.d))

\* Lines 255-256: the change from the first to the last price, and the same
\* as a percentage of the first.
ChangeOf(prices) == prices[Len(prices)] - prices[1]
ChangePercentOf(prices) ==
    RoundTo2(MulV(DivV(Num(ChangeOf(prices), 1), Num(prices[1], 1)), Num(100, 1)))

executeTimeChartDataTool(a, e) ==
    LET Price(metal, yearMonth) ==
            e.file.data[METAL_NAMES(metal)][FindEntry(e.file.data, metal, yearMonth)].price
        Priced(yearMonth) ==
            {a.metals.list[i] : i \in {j \in 1..Len(a.metals.list) :
                 FindEntry(e.file.data, a.metals.list[j], yearMonth) # 0}}
        DataPoint(yearMonth) ==
            [date |-> yearMonth,
             prices |-> [metal \in Priced(yearMonth) |-> Price(metal, yearMonth)]]
        Stats(prices) ==
            [min |-> MinOf({prices[i] : i \in 1..Len(prices)}),
             max |-> -MinOf({-prices[i] : i \in 1..Len(prices)}),
             change |-> ChangeOf(prices),
             changePercent |-> ChangePercentOf(prices)]
        Chart(startDate, endDate, dateRange) ==
            LET points == SelectSeq([i \in 1..Len(dateRange) |-> DataPoint(dateRange[i])],
                                    LAMBDA point : DOMAIN point.prices # {})
                Summarised == {a.metals.list[i] : i \in 1..Len(a.metals.list)}
                                \cap UNION {DOMAIN points[i].prices : i \in 1..Len(points)}
            IN  SuccessResult(
                    [metals |-> a.metals.list,
                     currency |-> IF a.currency = "" THEN "USD" ELSE a.currency,
                     startDate |-> startDate,
                     endDate |-> endDate,
                     dataPoints |-> points,
                     summary |-> [metal \in Summarised |->
                         Stats(LET have == SelectSeq(points,
                                       LAMBDA point : metal \in DOMAIN point.prices)
                               IN  [i \in 1..Len(have) |-> have[i].prices[metal]])]])
        Ranged(startDate, endDate) ==
            IF ~a.metals.iterable
            THEN FailureResult("metals is not iterable")
            ELSE Chart(startDate, endDate,
                       generateDateRange(startDate, endDate,
                           IF a.dataPoints = <<>> THEN 12 ELSE a.dataPoints[1]))
        Period(parsed) == Ranged(parsed.startDate, parsed.endDate)
    IN  IF e.file.kind = "missing" THEN FailureResult("Data file not found")
        ELSE IF e.file.kind = "badjson" THEN FailureResult("Unexpected token in JSON")
        ELSE IF a.relativePeriod # <<>>
        THEN Period(parseRelativePeriodChart(a.relativePeriod, e.now))
        ELSE IF a.startDate # <<>> /\ a.endDate # <<>>
        THEN Ranged(a.startDate, a.endDate)
        ELSE IF a.startDate # <<>> THEN Ranged(a.startDate, <<"2", "0", "2", "5", "-", "0", "9">>)
        ELSE Period(parseRelativePeriodChart(<<"l", "a", "s", "t", " ", "1", "2", " ", "m", "o", "n", "t", "h", "s">>, e.now))

(***************************************************************************)
(* Specification of the six tool execution functions: one call of one of   *)
(* them, for any of the arguments and environments below.                  *)
(***************************************************************************)
GoldSeries ==
    <<Entry(9, 2024, 2570), Entry(10, 2024, 2690), Entry(11, 2024, 2650),
      Entry(1, 2025, 2710), Entry(8, 2025, 3370), Entry(9, 2025, 3670)>>
SilverSeries == <<Entry(8, 2025, 38), Entry(9, 2025, 43)>>
Files ==
    {[kind |-> "missing"], [kind |-> "badjson"],
     [kind |-> "data", data |-> [Gold |-> GoldSeries, Silver |-> SilverSeries]],
     [kind |-> "data", data |-> [Gold |-> <<>>]],
     [kind |-> "data", data |-> [Gold |-> <<[date |-> <<"9", "/", "2", "0", "2", "5">>, price |-> 3670]>>]]}
RelativePeriods ==
    {<<>>, <<"l", "a", "s", "t", " ", "2", " ", "m", "o", "n", "t", "h", "s">>, <<"1", "2", " ", "W", "e", "e", "k", "s">>, <<"l", "a", "s", "t", " ", "y", "e", "a", "r">>, <<"2", " ", "q", "u", "a", "r", "t", "e", "r", "s">>, <<"s", "o", "o", "n">>}

InitSpotPrice ==
    /\ pc = "spot_price"
    /\ args \in [tool : {"get_spot_price"}, metal : Metals, currency : {"USD"}]
    /\ env \in [apiKeySet : BOOLEAN, upstream : Upstreams]
    /\ functionArg = NoCall /\ fetchCalls = 0 /\ toolResult = NoResult
    /\ DirectCall

SpotPrice ==
    /\ pc = "spot_price"
    /\ LET Return(r) == toolResult' = r.result /\ fetchCalls' = fetchCalls + r.fetched
       IN  Return(executeSpotPriceTool(args, env))
    /\ pc' = "done"
    /\ UNCHANGED <<pageVars, args, env, functionArg, providerCalls, chatVars>>

SearchContents ==
    {<<>>,
     <<[type |-> "thinking", text |-> "plan", urls |-> <<>>],
       [type |-> "text", text |-> "news", urls |-> <<"u1", "u2", "u1">>]>>,
     <<[type |-> "text", text |-> "news", urls |-> <<>>],
       [type |-> "text", text |-> "more", urls |-> <<"u1">>]>>}
Searches ==
    {[kind |-> "reject", thrown |-> t] : t \in Thrown}
      \cup {[kind |-> "response", content |-> c] : c \in SearchContents}

InitWebSearch ==
    /\ pc = "web_search"
    /\ args \in [tool : {"search_metal_news"}, query : {"gold"},
                 timeframe : {"", "2024"}]
    /\ env \in [search : Searches]
    /\ functionArg = NoCall /\ fetchCalls = 0 /\ toolResult = NoResult
    /\ DirectCall

WebSearch ==
    /\ pc = "web_search"
    /\ LET Return(r) ==
               /\ toolResult' = r.result
               /\ providerCalls' = providerCalls + r.requested
       IN  Return(executeWebSearchTool(args, env))
    /\ pc' = "done"
    /\ UNCHANGED <<pageVars, args, env, functionArg, fetchCalls, chatVars>>

\* z.enum(["1w", "1m", "3m", "6m", "1y", "5y"]) of the LangChain tool schema.
SchemaRelativePeriods ==
    {<<"1", "w">>, <<"1", "m">>, <<"3", "m">>, <<"6", "m">>, <<"1", "y">>,
     <<"5", "y">>}

InitHistoricalData ==
    /\ pc = "historical_data"
    /\ args \in [tool : {"get_historical_data"},
                 metal : {"XAU", "XAG", "XPT", "XXX"},
                 startDate : {<<>>, <<"2", "0", "2", "4", "-", "0", "9">>, <<"2", "0", "2", "4", "M", "1", "1">>, <<"2", "0", "2", "4", "-", "1", "2">>, <<"2", "0", "2", "5", "-", "0", "9">>, <<"b", "a", "d">>},
                 endDate : {<<>>, <<"N", "o", "w">>, <<"2", "0", "2", "5", "-", "0", "1">>, <<"2", "0", "2", "4", "-", "9">>, <<"1", "9", "9", "9", "-", "0", "1">>, <<"2", "0", "2", "5", "-", "1", "2">>},
                 relativePeriod : RelativePeriods \cup SchemaRelativePeriods
                                    \cup {<<"l", "a", "s", "t", " ", "2", " ", "w", "e", "e", "k", "s">>}]
    /\ env \in [file : Files]
    /\ functionArg = NoCall /\ fetchCalls = 0 /\ toolResult = NoResult
    /\ DirectCall

HistoricalData ==
    /\ pc = "historical_data"
    /\ toolResult' = executeHistoricalDataTool(args, env)
    /\ pc' = "done"
    /\ UNCHANGED <<pageVars, args, env, functionArg, fetchCalls, providerCalls, chatVars>>

InitTimeChartData ==
    /\ pc = "time_chart_data"
    /\ args \in [tool : {"get_time_chart_data"},
                 metals : {[iterable |-> FALSE, list |-> <<>>]}
                            \cup {[iterable |-> TRUE, list |-> l] :
                                    l \in {<<>>, <<"XAU">>, <<"XAG", "XAU">>, <<"XXX">>}},
                 startDate : {<<>>, <<"2", "0", "2", "5", "-", "0", "8">>, <<"2", "0", "2", "4", "-", "0", "9">>, <<"b", "a", "d">>},
                 endDate : {<<>>, <<"2", "0", "2", "5", "-", "0", "9">>, <<"2", "0", "2", "4", "-", "0", "1">>},
                 relativePeriod : RelativePeriods,
                 currency : {"", "EUR"},
                 dataPoints : {<<>>, <<2>>, <<0>>}]
    /\ env \in [file : Files, now : {2025 * 12 + 8, 2025 * 12 + 10}]
    /\ functionArg = NoCall /\ fetchCalls = 0 /\ toolResult = NoResult
    /\ DirectCall

TimeChartData ==
    /\ pc = "time_chart_data"
    /\ toolResult' = executeTimeChartDataTool(args, env)
    /\ pc' = "done"
    /\ UNCHANGED <<pageVars, args, env, functionArg, fetchCalls, providerCalls, chatVars>>

InitTools ==
    \/ InitCalc
    \/ InitWeightValue
    \/ InitSpotPrice
    \/ InitWebSearch
    \/ InitHistoricalData
    \/ InitTimeChartData

NextTools ==
    \/ Calculate
    \/ WeightValue
    \/ SpotPrice
    \/ WebSearch
    \/ HistoricalData
    \/ TimeChartData

SpecTools == InitTools /\ [][NextTools]_vars

(***************************************************************************)
(* Properties of the tool results.                                         *)
(***************************************************************************)
SuccessWithData(r) == r.success /\ r.keys = {"success", "data"} /\ r.data # NoData
FailureWithError(r) == ~r.success /\ r.keys = {"success", "error"} /\ r.data = NoData

\* C1: every value returned by one of the six tool execution functions is
\* either success=true with data and no error, or success=false with error
\* and no data.
C1_ResultIsSuccessWithDataOrFailureWithError ==
    pc = "done" =>
        /\ SuccessWithData(toolResult) \/ FailureWithError(toolResult)
        /\ ~(SuccessWithData(toolResult) /\ FailureWithError(toolResult))

\* The chart tool returned data points for both metals, for a file that has them.
C1_Witness ==
    /\ pc = "done"
    /\ args.tool = "get_time_chart_data"
    /\ SuccessWithData(toolResult)
    /\ Len(toolResult.data.dataPoints) = 2
    /\ DOMAIN toolResult.data.dataPoints[1].prices = {"XAU", "XAG"}


(***************************************************************************)
(* The chat orchestrators: processChatWithLLM (anthropic-service.ts) and   *)
(* processChatWithLangChain (langchain-service.ts).                        *)
(***************************************************************************)
MaxBlocks == 2       \* content blocks in the provider's first response
MaxAgentCalls == 2   \* tool calls the agent follows before its recursion limit

ToolNames ==
    {"get_weight_value", "get_spot_price", "get_historical_data",
     "search_metal_news", "calculate", "get_time_chart_data"}

\* A tool execution that asks the LLM provider once more than it does.
RunCallingProvider(result, requested, fetched) ==
    [result |-> result, requested |-> requested + 1, fetched |-> fetched]
\* What executing a tool can come to: its result, the LLM provider requests
\* and the pricing requests it made.  The arguments are the provider's.
Run(result, requested, fetched) ==
    [result |-> result, requested |-> requested, fetched |-> fetched]
GoodUpstream ==
    [kind |-> "payload", fields |-> Payload(Dec(2037, 0), Dec(655, -1), Dec(49, 0))]
ToolRuns(name) ==
    CASE name = "get_weight_value" ->
           {Run(r.result, 0, r.fetched) : r \in
              {executeWeightValueTool(
                   [metal |-> "XAU", weight |-> w, unit |-> <<"g">>, karat |-> "",
                    currency |-> "USD"],
                   [apiKeySet |-> TRUE, upstream |-> GoodUpstream]) :
                 w \in {Dec(2, 0), Dec(0, 0)}}}
      [] name = "get_spot_price" ->
           {Run(r.result, 0, r.fetched) : r \in
              {executeSpotPriceTool([metal |-> "XAU", currency |-> "USD"],
                                    [apiKeySet |-> k, upstream |-> GoodUpstream]) :
                 k \in BOOLEAN}}
      [] name = "get_historical_data" ->
           {Run(executeHistoricalDataTool(
                    [metal |-> "XAU", startDate |-> <<>>, endDate |-> <<>>,
                     relativePeriod |-> period],
                    [file |-> [kind |-> "data", data |-> [Gold |-> GoldSeries]]]),
                0, 0) : period \in {<<"l", "a", "s", "t", " ", "y", "e", "a", "r">>, <<"s", "o", "o", "n">>}}
      [] name = "search_metal_news" ->
           {Run(r.result, r.requested, 0) : r \in
              {executeWebSearchTool([query |-> "gold", timeframe |-> ""],
                                    [search |-> search]) :
                 search \in {[kind |-> "reject", thrown |-> NonErrorThrown],
                             [kind |-> "response", content |-> <<>>]}}}
      [] name = "calculate" ->
           {Run(executeCalculationTool(expression, <<"d">>).result, 0, 0) :
              expression \in {<<"2", "*", "2">>, <<"2", "/", "0">>}}
      [] name = "get_time_chart_data" ->
           {Run(executeTimeChartDataTool(
                    [metals |-> [iterable |-> TRUE, list |-> <<"XAU">>],
                     startDate |-> <<"2", "0", "2", "5", "-", "0", "8">>, endDate |-> <<"2", "0", "2", "5", "-", "0", "9">>,
                     relativePeriod |-> <<>>, currency |-> "",
                     dataPoints |-> <<>>],
                    [file |-> file, now |-> 2025 * 12 + 8]),
                0, 0) :
              file \in {[kind |-> "missing"],
                        [kind |-> "data", data |-> [Gold |-> GoldSeries]]}}
      [] OTHER -> {Run(FailureResult("Unknown tool"), 0, 0)}

\* The exception leaves the function.
Uncaught(thrown, fallback, apology) == [returned |-> FALSE]
\* The value the catch block returns.
Caught(thrown, fallback, apology) ==
    [returned |-> TRUE, success |-> FALSE,
     keys |-> {"success", "error", "response"},
     error |-> CatchMessage(thrown, fallback),
     response |-> <<apology>>, usedTool |-> FALSE, chartData |-> NoData]

Answered(response, usedTool, chartData) ==
    [returned |-> TRUE, success |-> TRUE,
     keys |-> IF args.orchestrator = "langchain"
              THEN {"success", "response", "usedTool", "toolsUsed", "chartData"}
              ELSE IF usedTool
              THEN {"success", "response", "usedTool", "toolResults", "toolsUsed",
                    "chartData"}
              ELSE {"success", "response", "usedTool"},
     error |-> "", response |-> response, usedTool |-> usedTool,
     chartData |-> chartData]

LLMApology == "I'm sorry, I encountered an error processing your request. Please try again."
LangChainApology == "I'm sorry, I encountered an error processing your request."
LLMCaught(thrown) == Caught(thrown, "Unknown error occurred", LLMApology)
LangChainCaught(thrown) == Caught(thrown, "Unknown error", LangChainApology)

\* The answer is read from the response that asked for the tools.
ContentOfFirstResponse == env.first.content
\* response.content of the first call and finalResponse.content of the second.
FirstContent == env.first.content
FinalContent == env.second.content

ToolUseBlocks(content) == {i \in 1..Len(content) : content[i].type = "tool_use"}

\* A tool_use block naming an unknown tool is passed over.
NextKnownToolBlock ==
    LET Next(blocks) ==
            LET rest == {i \in blocks :
                           Cardinality({j \in blocks : j < i}) = Len(toolResults)}
            IN  IF rest = {} THEN 0 ELSE MinOf(rest)
    IN  Next({i \in ToolUseBlocks(FirstContent) : FirstContent[i].name \in ToolNames})

\* The block the for loop comes to next: the tool_use block after those that
\* pushed their result; 0 when the loop is over.
NextToolBlock ==
    LET Next(blocks) ==
            LET rest == {i \in blocks :
                           Cardinality({j \in blocks : j < i}) = Len(toolResults)}
            IN  IF rest = {} THEN 0 ELSE MinOf(rest)
    IN  Next(ToolUseBlocks(FirstContent))

\* The loop is left as soon as one result is there.
OneToolSettled == Len(toolResults) > 0
\* Some tool has pushed its result.
SomeToolSettled == Len(toolResults) > 0
\* Every awaited tool execution has resolved and the loop is over.
AllToolsSettled == pending = <<>> /\ NextToolBlock = 0

\* Lines 350-364: the first result whose data has dataPoints, if successful.
ExtractChartData ==
    LET Found(found) ==
            IF found = {} THEN NoData
            ELSE IF toolResults[MinOf(found)].content.success
            THEN toolResults[MinOf(found)].content.data
            ELSE NoData
    IN  IF \E i \in 1..Len(toolsUsed) : toolsUsed[i] = "get_time_chart_data"
        THEN Found({k \in 1..Len(toolResults) :
                      "dataPoints" \in DOMAIN toolResults[k].content.data})
        ELSE NoData

\* anthropic.messages.create (line 95) and, without a tool_use block, the
\* direct answer (line 396).
FirstCall ==
    /\ pc = "llm_first"
    /\ providerCalls' = providerCalls + 1
    /\ IF env.first.kind = "reject"
       THEN chatResponse' = LLMCaught(env.first.thrown) /\ pc' = "done"
       ELSE IF ToolUseBlocks(FirstContent) = {}
       THEN /\ chatResponse' = Answered(TextOf(FirstContent), FALSE, NoData)
            /\ pc' = "done"
       ELSE chatResponse' = chatResponse /\ pc' = "llm_tools"
    /\ UNCHANGED <<pageVars, args, env, functionArg, fetchCalls, toolResult, toolResults,
                   toolsUsed, pending>>

\* The loop comes to a tool_use block: toolsUsed.push, the input is
\* destructured (a TypeError without one) and the tool function is called.
StartTool ==
    /\ pc = "llm_tools"
    /\ pending = <<>>
    /\ NextToolBlock # 0
    /\ LET Dispatch(i, block) ==
               /\ toolsUsed' = Append(toolsUsed, block.name)
               /\ IF block.name \in ToolNames /\ ~block.hasInput
                  THEN /\ chatResponse' =
                            LLMCaught(ErrorThrown("Cannot destructure property"))
                       /\ pc' = "done"
                       /\ pending' = pending
                  ELSE /\ pending' = <<i>>
                       /\ UNCHANGED <<pc, chatResponse>>
       IN  Dispatch(NextToolBlock, FirstContent[NextToolBlock])
    /\ UNCHANGED <<pageVars, args, env, functionArg, fetchCalls, providerCalls, toolResult,
                   toolResults>>

\* The awaited tool function resolves and its result is pushed.
FinishTool ==
    /\ pc = "llm_tools"
    /\ pending # <<>>
    /\ \E run \in ToolRuns(FirstContent[pending[1]].name) :
          /\ toolResult' = run.result
          /\ toolResults' = Append(toolResults,
                 [type |-> "tool_result", tool_use_id |-> pending[1],
                  content |-> run.result])
          /\ providerCalls' = providerCalls + run.requested
          /\ fetchCalls' = fetchCalls + run.fetched
    /\ pending' = <<>>
    /\ UNCHANGED <<pageVars, pc, args, env, functionArg, toolsUsed, chatResponse>>

\* anthropic.messages.create (line 333) with the tool results.
SecondCall ==
    /\ pc = "llm_tools"
    /\ AllToolsSettled
    /\ SomeToolSettled
    /\ providerCalls' = providerCalls + 1
    /\ pc' = "llm_second"
    /\ UNCHANGED <<pageVars, args, env, functionArg, fetchCalls, toolResult, chatVars>>

\* The second call settles: the chart data is extracted and the answer returned.
FinalAnswer ==
    /\ pc = "llm_second"
    /\ chatResponse' =
         CASE env.second.kind = "reject" -> LLMCaught(env.second.thrown)
           [] env.second.kind = "malformed" ->
                LLMCaught(ErrorThrown("Cannot read properties of undefined"))
           [] OTHER -> Answered(TextOf(FinalContent), TRUE, ExtractChartData)
    /\ pc' = "done"
    /\ UNCHANGED <<pageVars, args, env, functionArg, fetchCalls, providerCalls, toolResult,
                   toolResults, toolsUsed, pending>>

\* createModelInstance and createAgent.
CreateAgent ==
    /\ pc = "lc_create"
    /\ IF args.provider \notin {"openai", "anthropic", "openrouter"}
       THEN chatResponse' = LangChainCaught(ErrorThrown("Unknown provider"))
              /\ pc' = "done"
       ELSE IF args.provider \notin env.apiKeys
       THEN chatResponse' =
                LangChainCaught(ErrorThrown("API key environment variable is not set"))
              /\ pc' = "done"
       ELSE chatResponse' = chatResponse /\ pc' = "lc_agent"
    /\ UNCHANGED <<pageVars, args, env, functionArg, fetchCalls, providerCalls, toolResult,
                   toolResults, toolsUsed, pending>>

\* Inside agent.invoke: the agent calls the model, which fails, asks for
\* tools or gives the last message; past its limit the agent throws.
AgentModelCall ==
    /\ pc = "lc_agent"
    /\ pending = <<>>
    /\ IF Len(toolsUsed) >= MaxAgentCalls
       THEN /\ chatResponse' = LangChainCaught(ErrorThrown("Recursion limit reached"))
            /\ pc' = "done"
            /\ UNCHANGED <<providerCalls, toolsUsed, pending>>
       ELSE /\ providerCalls' = providerCalls + 1
            /\ \/ \E thrown \in Thrown :
                    /\ chatResponse' = LangChainCaught(thrown)
                    /\ pc' = "done"
                    /\ UNCHANGED <<toolsUsed, pending>>
               \/ \E name \in {"get_time_chart_data", "get_historical_data",
                               "search_metal_news"} :
                    /\ toolsUsed' = Append(toolsUsed, name)
                    /\ pending' = <<name>>
                    /\ UNCHANGED <<pc, chatResponse>>
               \/ /\ pc' = "lc_extract"
                  /\ UNCHANGED <<chatResponse, toolsUsed, pending>>
    /\ UNCHANGED <<pageVars, args, env, functionArg, fetchCalls, toolResult, toolResults>>

\* Inside agent.invoke: the tool runs and its tool message is added; the
\* content is the JSON of the result, or an error text when the call was refused.
AgentTool ==
    /\ pc = "lc_agent"
    /\ pending # <<>>
    /\ \/ \E run \in ToolRuns(pending[1]) :
            /\ toolResult' = run.result
            /\ toolResults' = Append(toolResults,
                   [type |-> "tool", name |-> pending[1], json |-> TRUE,
                    content |-> run.result])
            /\ providerCalls' = providerCalls + run.requested
            /\ fetchCalls' = fetchCalls + run.fetched
       \/ /\ toolResults' = Append(toolResults,
                 [type |-> "tool", name |-> pending[1], json |-> FALSE,
                  content |-> NoResult])
          /\ UNCHANGED <<toolResult, providerCalls, fetchCalls>>
    /\ pending' = <<>>
    /\ UNCHANGED <<pageVars, pc, args, env, functionArg, toolsUsed, chatResponse>>

\* Lines 248-261: the first tool message of get_time_chart_data, parsed.
ExtractChartMessage ==
    LET Found(found) ==
            IF found = {} THEN NoData
            ELSE IF toolResults[MinOf(found)].json
                      /\ toolResults[MinOf(found)].content.success
            THEN toolResults[MinOf(found)].content.data
            ELSE NoData
    IN  Found({k \in 1..Len(toolResults) :
                 toolResults[k].name = "get_time_chart_data"})

\* agent.invoke has resolved: lines 233-275.
LangChainAnswer ==
    /\ pc = "lc_extract"
    /\ chatResponse' = Answered(<<env.lastMessage>>, Len(toolsUsed) > 0,
                                ExtractChartMessage)
    /\ pc' = "done"
    /\ UNCHANGED <<pageVars, args, env, functionArg, fetchCalls, providerCalls, toolResult,
                   toolResults, toolsUsed, pending>>

(***************************************************************************)
(* Specification of one chat request handled by either orchestrator.       *)
(***************************************************************************)
Blocks ==
    {[type |-> "text", text |-> "first", name |-> "", hasInput |-> FALSE]}
      \cup {[type |-> "tool_use", text |-> "", name |-> n, hasInput |-> TRUE] :
              n \in ToolNames \cup {"get_weather"}}
      \cup {[type |-> "tool_use", text |-> "", name |-> "get_spot_price",
             hasInput |-> FALSE]}
Firsts ==
    {[kind |-> "reject", thrown |-> t] : t \in Thrown}
      \cup {[kind |-> "response", content |-> c] : c \in SeqsUpTo(Blocks, MaxBlocks)}
Seconds ==
    {[kind |-> "reject", thrown |-> ErrorThrown("overloaded")],
     [kind |-> "malformed"],
     [kind |-> "response", content |-> <<>>],
     [kind |-> "response",
      content |-> <<[type |-> "text", text |-> "second", urls |-> <<>>]>>]}

InitChat ==
    /\ \/ /\ pc = "llm_first"
          /\ args = [orchestrator |-> "llm"]
          /\ env \in [first : Firsts, second : Seconds]
       \/ /\ pc = "lc_create"
          /\ args \in [orchestrator : {"langchain"},
                       provider : {"openai", "anthropic", "bogus"}]
          /\ env \in [apiKeys : {{}, {"openai"}}, lastMessage : {"last"}]
    /\ functionArg = NoCall /\ fetchCalls = 0 /\ toolResult = NoResult
    /\ DirectCall

NextChat ==
    \/ FirstCall
    \/ StartTool
    \/ FinishTool
    \/ SecondCall
    \/ FinalAnswer
    \/ CreateAgent
    \/ AgentModelCall
    \/ AgentTool
    \/ LangChainAnswer

SpecChat == InitChat /\ [][NextChat]_vars

(***************************************************************************)
(* Properties of the chat orchestrators.                                   *)
(***************************************************************************)
IsLLM == args.orchestrator = "llm"
Responded == IsLLM /\ env.first.kind = "response"
ToolsRequested == Responded /\ ToolUseBlocks(FirstContent) # {}
NoToolRequested == Responded /\ ToolUseBlocks(FirstContent) = {}
\* A requested known tool came without input: destructuring it throws.
InputMissing ==
    \E i \in ToolUseBlocks(FirstContent) :
        FirstContent[i].name \in ToolNames /\ ~FirstContent[i].hasInput
\* The tool that produced the k-th tool result.
ResultTool(k) ==
    IF IsLLM THEN FirstContent[toolResults[k].tool_use_id].name
    ELSE toolResults[k].name
CountOf(names, name) == Cardinality({i \in 1..Len(names) : names[i] = name})

\* C2: the chat orchestrators never throw: when a provider call, a tool
\* dispatch or the extraction of the answer raises an exception, the function
\* returns success=false with an error message and a non-empty apology.
C2_ExceptionsBecomeFailureResponses ==
    pc = "done" =>
        /\ chatResponse.returned
        /\ ~chatResponse.success =>
              /\ "error" \in chatResponse.keys
              /\ chatResponse.error # ""
              /\ "response" \in chatResponse.keys
              /\ chatResponse.response =
                    <<IF IsLLM THEN LLMApology ELSE LangChainApology>>
              /\ chatResponse.response[1] # ""
        /\ IsLLM /\ env.first.kind = "reject" => ~chatResponse.success
        /\ ToolsRequested /\ (InputMissing \/ env.second.kind # "response")
              => ~chatResponse.success
        /\ ~IsLLM /\ args.provider \notin env.apiKeys => ~chatResponse.success

\* The second provider call was rejected after two tools had run.
C2_Witness ==
    /\ pc = "done"
    /\ ToolsRequested
    /\ Len(toolResults) = 2
    /\ env.second.kind = "reject"
    /\ ~chatResponse.success
    /\ chatResponse.error = "overloaded"

Progress ==
    providerCalls + Len(toolsUsed) + Len(toolResults) + (IF pc = "done" THEN 1 ELSE 0)

C4_SecondCallAfterEveryToolCompleted ==
    /\ [](pc = "llm_second" =>
            /\ pending = <<>>
            /\ Len(toolResults) = Cardinality(ToolUseBlocks(FirstContent))
            /\ \A k \in 1..Len(toolResults) :
                   toolResults[k].content.keys \in
                       {{"success", "data"}, {"success", "error"}})
    /\ [][pc = "llm_second" =>
             /\ pending' = <<>>
             /\ toolResults' = toolResults
             /\ toolsUsed' = toolsUsed]_vars

\* The second call is in flight after one tool succeeded and one failed.
C4_Witness ==
    /\ pc = "llm_second"
    /\ Len(toolResults) = 2
    /\ toolResults[1].content.success
    /\ ~toolResults[2].content.success

\* The results of get_time_chart_data in this turn.
ChartResults == {k \in 1..Len(toolResults) : ResultTool(k) = "get_time_chart_data"}

\* C5: when the turn's tool requests include get_time_chart_data and that
\* call succeeded, the returned chartData is exactly that call's data,
\* whatever other tools were requested and in what order.
C5_ChartDataIsTheChartToolsPayload ==
    (pc = "done" /\ chatResponse.returned /\ chatResponse.success) =>
        \A k \in ChartResults :
            (ChartResults = {k} /\ (IsLLM \/ toolResults[k].json)
               /\ toolResults[k].content.success)
              => chatResponse.chartData = toolResults[k].content.data

\* C6 as stated: without a tool request no tool runs, no second call is made
\* and the first response's text is returned with usedTool=false; with one,
\* the returned text is the second response's.
C6_TextIsFirstOrElseSecond ==
    (pc = "done" /\ Responded) =>
        IF NoToolRequested
        THEN /\ toolsUsed = <<>> /\ toolResults = <<>> /\ providerCalls = 1
             /\ chatResponse.success
             /\ chatResponse.response = TextOf(FirstContent)
             /\ ~chatResponse.usedTool
        ELSE /\ env.second.kind = "response"
             /\ chatResponse.response = TextOf(FinalContent)

\* C6: without a tool request the first response's text is returned as
\* stated; with one, a successful return carries the second response's text
\* and a failed one the apology, never the first response's text.
C6_TextIsSecondUnlessCaught ==
    (pc = "done" /\ Responded) =>
        IF NoToolRequested
        THEN /\ toolsUsed = <<>> /\ toolResults = <<>> /\ providerCalls = 1
             /\ chatResponse.success
             /\ chatResponse.response = TextOf(FirstContent)
             /\ ~chatResponse.usedTool
        ELSE /\ chatResponse.success =>
                   /\ env.second.kind = "response"
                   /\ chatResponse.response = TextOf(FinalContent)
                   /\ chatResponse.usedTool
             /\ ~chatResponse.success => chatResponse.response = <<LLMApology>>
             /\ TextOf(FirstContent) # <<>> =>
                   chatResponse.response # TextOf(FirstContent)

\* The first response had text and a tool request; the second one's text came back.
C6_Witness ==
    /\ pc = "done"
    /\ ToolsRequested
    /\ TextOf(FirstContent) = <<"first">>
    /\ chatResponse.success
    /\ chatResponse.response = <<"second">>


(***************************************************************************)
(* Validation of the get_weight_value parameters.                          *)
(***************************************************************************)
InvalidWeightValueInput ==
    \/ args.metal \notin ValidMetals
    \/ args.weight.m <= 0
    \/ convertToGrams(args.weight, args.unit).threw
    \/ args.metal = "XAU" /\ args.karat # "" /\ KaratField(args.karat) = ""

\* C11: executeWeightValueTool issues no request to the pricing service when
\* an input parameter is invalid (metal, weight <= 0, unrecognized unit,
\* unrecognized karat for gold): the failure is produced before fetch.
C11_NoFetchOnInvalidInput ==
    (pc = "done" /\ InvalidWeightValueInput) =>
        ~toolResult.success /\ fetchCalls = 0


(***************************************************************************)
(* Specification of one parseRelativePeriod call (utils.ts) on a string of *)
(* the form "(last|past) N (weeks|months|years)".                          *)
(***************************************************************************)
MaxPeriodCount == 30

PeriodPhrase(prefix, n, unit) ==
    prefix \o <<" ">> \o DigitsOf(n) \o <<" ">> \o unit
PeriodPhrases ==
    {PeriodPhrase(prefix, n, unit) :
        prefix \in {<<"l", "a", "s", "t">>, <<"p", "a", "s", "t">>},
        n \in 0..MaxPeriodCount,
        unit \in {<<"w", "e", "e", "k", "s">>, <<"m", "o", "n", "t", "h", "s">>, <<"y", "e", "a", "r", "s">>}}

InitParsePeriod ==
    /\ pc = "parse_period"
    /\ args \in [tool : {"parseRelativePeriod"}, relativePeriod : PeriodPhrases]
    /\ env = NoEnv
    /\ functionArg = NoCall /\ fetchCalls = 0 /\ toolResult = NoResult
    /\ DirectCall

ParsePeriod ==
    /\ pc = "parse_period"
    /\ toolResult' = parseRelativePeriod(args.relativePeriod)
    /\ pc' = "done"
    /\ UNCHANGED <<pageVars, args, env, functionArg, fetchCalls, providerCalls, chatVars>>

NextParsePeriod == ParsePeriod
SpecParsePeriod == InitParsePeriod /\ [][NextParsePeriod]_vars

\* The month an internal date "<year>M<month>" stands for, counted from year 0.
MonthOfExcelDate(date) ==
    LET At(j) == DigitsValue(SubSeq(date, 1, j - 1)) * 12
                   + DigitsValue(SubSeq(date, j + 1, Len(date))) - 1
    IN  At(CHOOSE j \in 1..Len(date) : date[j] = "M")

\* C12: for every "(last|past) N (weeks|months|years)" with N >= 0,
\* parseRelativePeriod returns the end period 2025M9 and a start period
\* chronologically strictly before it.
C12_StartStrictlyBeforeLatestPeriod ==
    pc = "done" =>
        /\ ~toolResult.threw
        /\ toolResult.endDate = <<"2", "0", "2", "5", "M", "9">>
        /\ MonthOfExcelDate(toolResult.startDate) < MonthOfExcelDate(toolResult.endDate)

\* What holds instead: the start is never after the end, and it is the end
\* itself exactly for N = 0 and for one or two weeks.
ParsePeriodStartNotAfterEnd ==
    pc = "done" =>
        /\ ~toolResult.threw
        /\ toolResult.endDate = <<"2", "0", "2", "5", "M", "9">>
        /\ MonthOfExcelDate(toolResult.startDate) <= MonthOfExcelDate(toolResult.endDate)
        /\ toolResult.startDate = toolResult.endDate <=>
             \E prefix \in {<<"l", "a", "s", "t">>, <<"p", "a", "s", "t">>} :
                \/ \E unit \in {<<"w", "e", "e", "k", "s">>, <<"m", "o", "n", "t", "h", "s">>, <<"y", "e", "a", "r", "s">>} :
                      args.relativePeriod = PeriodPhrase(prefix, 0, unit)
                \/ \E n \in 1..2 : args.relativePeriod = PeriodPhrase(prefix, n, <<"w", "e", "e", "k", "s">>)


(***************************************************************************)
(* Properties of get_historical_data.                                      *)
(***************************************************************************)
NoRange == [ok |-> FALSE, startDate |-> <<>>, endDate |-> <<>>]
\* The internal dates a call asks for, given the loaded series.
RequestedRange(a, data) ==
    LET Parsed3(parsed) ==
            IF parsed.threw THEN NoRange
            ELSE [ok |-> TRUE, startDate |-> parsed.startDate,
                  endDate |-> parsed.endDate]
        Given(from, to) ==
            IF from.threw \/ to.threw THEN NoRange
            ELSE [ok |-> TRUE, startDate |-> from.date, endDate |-> to.date]
    IN  IF a.relativePeriod # <<>> THEN Parsed3(parseRelativePeriod(a.relativePeriod))
        ELSE IF a.startDate # <<>> /\ a.endDate # <<>>
        THEN Given(convertToExcelDate(a.startDate),
                   IF ToLowerCase(a.endDate) = <<"n", "o", "w">>
                   THEN [threw |-> FALSE, date |-> data[Len(data)].date]
                   ELSE convertToExcelDate(a.endDate))
        ELSE NoRange

\* The series is loaded, the range is understood, and Holds(data, range).
ForRequestedRange(Holds(_, _)) ==
    LET Loaded(h) ==
            /\ ~h.threw
            /\ h.data # <<>>
            /\ LET Ranged(range) == range.ok /\ Holds(h.data, range)
               IN  Ranged(RequestedRange(args, h.data))
    IN  /\ pc = "done"
        /\ args.tool = "get_historical_data"
        /\ args.metal \in ValidMetals
        /\ Loaded(getMetalHistoricalData(args.metal, env.file))

\* The points the tool resolves the range to are of the same period.
ResolvedSamePeriod ==
    LET Same(data, range) ==
            LET At(s, t) ==
                    /\ s # 0 /\ t # 0
                    /\ MonthOfExcelDate(data[s].date) = MonthOfExcelDate(data[t].date)
            IN  At(ClosestStart(data, range.startDate), ClosestEnd(data, range.endDate))
    IN  ForRequestedRange(Same)

\* C13: when the start and end periods resolved by executeHistoricalDataTool
\* are the same period the tool returns a failure with a descriptive error,
\* and no success result has the same start and end period.
C13_SamePeriodIsAnError ==
    (pc = "done" /\ args.tool = "get_historical_data") =>
        /\ toolResult.success =>
             MonthOfExcelDate(toolResult.data.startDate)
               # MonthOfExcelDate(toolResult.data.endDate)
        /\ ResolvedSamePeriod =>
             /\ ~toolResult.success
             /\ toolResult.error = "Start and end dates are the same"

\* Start 2025-09 and end 'now' resolve to the last point of the series.
C13_Witness ==
    /\ ResolvedSamePeriod
    /\ args.relativePeriod = <<>>
    /\ args.startDate = <<"2", "0", "2", "5", "-", "0", "9">>
    /\ ToLowerCase(args.endDate) = <<"n", "o", "w">>
    /\ ~toolResult.success


\* The series has a point of that date.
InSeries(data, date) == \E i \in 1..Len(data) : data[i].date = date
\* The date is that of the chronologically earliest point at or after the
\* requested date.
EarliestAtOrAfter(data, date, requested) ==
    \E i \in 1..Len(data) :
        /\ data[i].date = date
        /\ MonthOfExcelDate(data[i].date) >= MonthOfExcelDate(requested)
        /\ \A k \in 1..Len(data) :
              MonthOfExcelDate(data[k].date) >= MonthOfExcelDate(requested)
                => MonthOfExcelDate(data[k].date) >= MonthOfExcelDate(data[i].date)
\* The date is that of the chronologically latest point at or before the
\* requested date.
LatestAtOrBefore(data, date, requested) ==
    \E i \in 1..Len(data) :
        /\ data[i].date = date
        /\ MonthOfExcelDate(data[i].date) <= MonthOfExcelDate(requested)
        /\ \A k \in 1..Len(data) :
              MonthOfExcelDate(data[k].date) <= MonthOfExcelDate(requested)
                => MonthOfExcelDate(data[k].date) <= MonthOfExcelDate(data[i].date)

\* C14: a requested start period that is not in the dataset is replaced by
\* the chronologically earliest dataset period at or after it, a requested
\* end period that is not in the dataset by the chronologically latest one at
\* or before it.
C14_NearestPointIsChronological ==
    LET Nearest(data, range) ==
            /\ ~InSeries(data, range.startDate) =>
                 EarliestAtOrAfter(data, toolResult.data.startDate, range.startDate)
            /\ ~InSeries(data, range.endDate) =>
                 LatestAtOrBefore(data, toolResult.data.endDate, range.endDate)
    IN  (pc = "done" /\ args.tool = "get_historical_data" /\ toolResult.success)
            => ForRequestedRange(Nearest)


(***************************************************************************)
(* Properties of get_time_chart_data.                                      *)
(***************************************************************************)
\* C15: for a relative period the chart-data composer resolves the end
\* period to the latest period of the dataset, 2025-09, whatever the wall
\* clock says.
C15_RelativeRangeEndsAtLatestDataPeriod ==
    (pc = "done" /\ args.tool = "get_time_chart_data" /\ args.relativePeriod # <<>>
       /\ toolResult.success)
        => toolResult.data.endDate = <<"2", "0", "2", "5", "-", "0", "9">>


\* Every month from startDate to endDate.
MonthsOfRange(startDate, endDate) ==
    LET Between(start, end) ==
            IF start = -1 \/ end = -1 \/ end < start THEN <<>>
            ELSE [i \in 1..(end - start + 1) |-> FormatYearMonth(start + i - 1)]
    IN  Between(ParseYearMonth(startDate), ParseYearMonth(endDate))

\* The prices the file has for the metal in the months of the range, in order.
AvailablePrices(data, metal, months) ==
    LET have == SelectSeq(months, LAMBDA month : FindEntry(data, metal, month) # 0)
    IN  [i \in 1..Len(have) |->
            data[METAL_NAMES(metal)][FindEntry(data, metal, have[i])].price]

\* C16: in every successful chart result each metal's summary change and
\* changePercent go from the first to the last data point available for the
\* metal in the requested range, also when the series was downsampled.
C16_ChangeIsFirstToLastAvailableInRange ==
    (pc = "done" /\ args.tool = "get_time_chart_data" /\ toolResult.success) =>
        \A metal \in DOMAIN toolResult.data.summary :
            LET FirstToLast(prices) ==
                    /\ prices # <<>>
                    /\ toolResult.data.summary[metal].change = ChangeOf(prices)
                    /\ toolResult.data.summary[metal].changePercent
                         = ChangePercentOf(prices)
            IN  FirstToLast(AvailablePrices(env.file.data, metal,
                    MonthsOfRange(toolResult.data.startDate, toolResult.data.endDate)))

\* What holds instead: the change goes from the first to the last of the
\* returned data points that have a price for the metal.
ChartChangeIsOverReturnedPoints ==
    (pc = "done" /\ args.tool = "get_time_chart_data" /\ toolResult.success) =>
        \A metal \in DOMAIN toolResult.data.summary :
            LET FirstToLast(prices) ==
                    /\ prices # <<>>
                    /\ toolResult.data.summary[metal].change = ChangeOf(prices)
                    /\ toolResult.data.summary[metal].changePercent
                         = ChangePercentOf(prices)
                Priced(points) ==
                    FirstToLast([i \in 1..Len(points) |-> points[i].prices[metal]])
            IN  Priced(SelectSeq(toolResult.data.dataPoints,
                                 LAMBDA point : metal \in DOMAIN point.prices))


(***************************************************************************)
(* Specification of one generateDateRange call.                            *)
(***************************************************************************)
MaxRangeMonths == 14   \* months between the start and the end of a range
MaxPoints == 13        \* requested point counts

InitDateRange ==
    /\ pc = "date_range"
    /\ \E start \in {2024 * 12 + 10, 2025 * 12}, length \in 0..MaxRangeMonths,
          maxPoints \in 1..MaxPoints :
          args = [tool |-> "generateDateRange",
                  startDate |-> FormatYearMonth(start),
                  endDate |-> FormatYearMonth(start + length - 1),
                  maxPoints |-> maxPoints]
    /\ env = NoEnv
    /\ functionArg = NoCall /\ fetchCalls = 0 /\ toolResult = NoResult
    /\ DirectCall

DateRange ==
    /\ pc = "date_range"
    /\ toolResult' = generateDateRange(args.startDate, args.endDate, args.maxPoints)
    /\ pc' = "done"
    /\ UNCHANGED <<pageVars, args, env, functionArg, fetchCalls, providerCalls, chatVars>>

NextDateRange == DateRange
SpecDateRange == InitDateRange /\ [][NextDateRange]_vars

\* The sequence takes every step-th month, from the first one on.
EveryNth(sampled, months, step) ==
    /\ Len(sampled) = ((Len(months) - 1) \div step) + 1
    /\ \A k \in 1..Len(sampled) : sampled[k] = months[(k - 1) * step + 1]

MaxNines == 11      \* longest run of nines in a mantissa
MaxExponent == 8    \* decimal exponents run over -MaxExponent..MaxExponent

Zeros(n) == [i \in 1..n |-> 0]
Nines(n) == [i \in 1..n |-> 9]
ZeroNumber == [neg |-> FALSE, digits |-> <<>>, exp |-> 0]

RECURSIVE StripLeadingZeros(_)
StripLeadingZeros(v) ==
    IF v.digits = <<>> THEN ZeroNumber
    ELSE IF v.digits[1] = 0
         THEN StripLeadingZeros([v EXCEPT !.digits = Tail(v.digits), !.exp = v.exp - 1])
         ELSE v

RECURSIVE StripTrailingZeros(_)
StripTrailingZeros(ds) ==
    IF ds # <<>> /\ ds[Len(ds)] = 0
    THEN StripTrailingZeros(SubSeq(ds, 1, Len(ds) - 1))
    ELSE ds

Normalized(v) ==
    LET Short(w) == IF w.digits = <<>> THEN w
                    ELSE [w EXCEPT !.digits = StripTrailingZeros(w.digits)]
    IN  Short(StripLeadingZeros(v))

\* The digits plus one in the last place; carry when they were all nines.
AllNines(ds) == \A i \in 1..Len(ds) : ds[i] = 9
PlusOne(ds) ==
    LET last == CHOOSE i \in 1..Len(ds) : ds[i] # 9 /\ \A j \in (i + 1)..Len(ds) : ds[j] = 9
    IN  [i \in 1..Len(ds) |-> IF i < last THEN ds[i] ELSE IF i = last THEN ds[i] + 1 ELSE 0]

\* v rounded to keep significant digits (keep >= 1), exactly keep digits long.
RoundSignificant(v, keep) ==
    IF Len(v.digits) <= keep
    THEN [v EXCEPT !.digits = v.digits \o Zeros(keep - Len(v.digits))]
    ELSE IF v.digits[keep + 1] < 5
    THEN [v EXCEPT !.digits = SubSeq(v.digits, 1, keep)]
    ELSE IF AllNines(SubSeq(v.digits, 1, keep))
    THEN [v EXCEPT !.digits = <<1>> \o Zeros(keep - 1), !.exp = v.exp + 1]
    ELSE [v EXCEPT !.digits = PlusOne(SubSeq(v.digits, 1, keep))]

DigitString(ds) == [i \in 1..Len(ds) |-> DigitChar(ds[i])]
SignString(v) == IF v.neg THEN <<"-">> ELSE <<>>

\* Number.prototype.toExponential(4)
toExponential4(v) ==
    LET Written(r) ==
            SignString(r) \o <<DigitChar(r.digits[1]), ".">>
              \o DigitString(SubSeq(r.digits, 2, 5))
              \o <<"e", IF r.exp < 0 THEN "-" ELSE "+">>
              \o DigitsOf(IF r.exp < 0 THEN -r.exp ELSE r.exp)
    IN  IF v.digits = <<>> THEN <<"0", ".", "0", "0", "0", "0", "e", "+", "0">>
        ELSE Written(RoundSignificant(v, 5))

\* en-US grouping: a comma before every group of three integer digits.
RECURSIVE Grouped(_)
Grouped(chars) ==
    IF Len(chars) <= 3 THEN chars
    ELSE Grouped(SubSeq(chars, 1, Len(chars) - 3)) \o <<",">>
           \o SubSeq(chars, Len(chars) - 2, Len(chars))

\* Number.prototype.toLocaleString('en-US', {minimumFractionDigits: 0,
\* maximumFractionDigits: 4}) of a number of magnitude 0 or in [0.01, 1e6).
toLocaleString4(v) ==
    LET Fraction(ds) == IF ds = <<>> THEN <<>> ELSE <<".">> \o DigitString(ds)
        Written(r) ==
            IF r.exp >= 0
            THEN SignString(r) \o Grouped(DigitString(SubSeq(r.digits, 1, r.exp + 1)))
                   \o Fraction(StripTrailingZeros(SubSeq(r.digits, r.exp + 2, Len(r.digits))))
            ELSE SignString(r) \o <<"0">>
                   \o Fraction(StripTrailingZeros(Zeros(-r.exp - 1) \o r.digits))
    IN  IF v.digits = <<>> THEN <<"0">>
        ELSE Written(RoundSignificant(v, v.exp + 5))

\* Math.abs(value) >= 1e6 || (Math.abs(value) < 0.01 && value !== 0)
IsExponentialMagnitude(v) == v.digits # <<>> /\ (v.exp >= 6 \/ v.exp <= -3)

formatResult(value) ==
    IF IsExponentialMagnitude(value) THEN toExponential4(value)
    ELSE toLocaleString4(value)

\* The number a formatted string spells: sign, integer digits with their
\* grouping commas, optional fraction, optional exponent.
IndexOfChar(s, c) ==
    IF \E i \in 1..Len(s) : s[i] = c
    THEN CHOOSE i \in 1..Len(s) : s[i] = c /\ \A j \in 1..(i - 1) : s[j] # c
    ELSE 0

ParseFormatted(s) ==
    LET Unsigned(t) == IF t # <<>> /\ t[1] \in {"-", "+"} THEN Tail(t) ELSE t
        ExponentOf(t) ==
            IF t = <<>> THEN 0
            ELSE IF t[1] = "-" THEN -DigitsValue(Tail(t))
            ELSE DigitsValue(Unsigned(t))
        Mantissa(t, e) ==
            LET Split(ungrouped) ==
                    LET At(dot) ==
                            IF dot = 0
                            THEN [neg |-> s[1] = "-",
                                  digits |-> [i \in 1..Len(ungrouped) |-> DigitVal(ungrouped[i])],
                                  exp |-> Len(ungrouped) - 1 + e]
                            ELSE [neg |-> s[1] = "-",
                                  digits |-> [i \in 1..(Len(ungrouped) - 1) |->
                                                DigitVal(IF i < dot THEN ungrouped[i]
                                                         ELSE ungrouped[i + 1])],
                                  exp |-> dot - 2 + e]
                    IN  At(IndexOfChar(ungrouped, "."))
            IN  Split(SelectSeq(Unsigned(t), LAMBDA c : c # ","))
        Parts(at) ==
            IF at = 0 THEN Mantissa(s, 0)
            ELSE Mantissa(SubSeq(s, 1, at - 1), ExponentOf(SubSeq(s, at + 1, Len(s))))
    IN  Normalized(Parts(IndexOfChar(s, "e")))

Mantissas ==
    {Nines(n) : n \in 1..MaxNines}
      \cup {<<1>>, <<1, 2, 3, 4, 4>>, <<1, 2, 3, 4, 4, 9>>, <<1, 2, 3, 4, 4, 4>>,
            <<1, 0, 0, 0, 0, 0, 1>>, <<4, 9, 9, 9, 9, 4>>}

Numbers ==
    {ZeroNumber}
      \cup {[neg |-> neg, digits |-> digits, exp |-> exp] :
              neg \in BOOLEAN, digits \in Mantissas, exp \in (-MaxExponent)..MaxExponent}

InitFormat ==
    /\ pc = "format"
    /\ \E value \in Numbers : args = [tool |-> "formatResult", value |-> value]
    /\ env = NoEnv
    /\ functionArg = NoCall /\ fetchCalls = 0 /\ toolResult = NoResult
    /\ DirectCall

Format ==
    /\ pc = "format"
    /\ toolResult' = formatResult(args.value)
    /\ pc' = "done"
    /\ UNCHANGED <<pageVars, args, env, functionArg, fetchCalls, providerCalls, chatVars>>

NextFormat == Format
SpecFormat == InitFormat /\ [][NextFormat]_vars

\* C18: a formatted result, parsed again, is a number of the same magnitude
\* class as the original: exponential (magnitude >= 1e6, or non-zero and
\* < 0.01) or fixed-point (otherwise).
C18_FormatKeepsMagnitudeClass ==
    pc = "done" =>
        IsExponentialMagnitude(ParseFormatted(toolResult)) = IsExponentialMagnitude(args.value)

\* The digits that are kept are the digits of the original.
FormatRoundTripWithinPrecision ==
    pc = "done" =>
        LET Same(back, kept) == back = Normalized(kept)
        IN  Same(ParseFormatted(toolResult),
                 RoundSignificant(args.value,
                                  IF IsExponentialMagnitude(args.value) \/ args.value.digits = <<>>
                                  THEN 5 ELSE args.value.exp + 5))


\* ---------------------------------------------------------------------------
\* The per-tool HTTP endpoints (GET handlers).  A query parameter that is
\* absent reads as null and one given empty as "": both are falsy, and both
\* are the empty string here.  The response is its status with the JSON body.
\* ---------------------------------------------------------------------------
HttpResponse(status, body, more) ==
    [status |-> status, success |-> body.success, keys |-> body.keys \cup more,
     data |-> body.data, error |-> body.error]

\* NextResponse.json({...result, tool, timestamp, request})
ToolResponse(result) == HttpResponse(200, result, {"tool", "timestamp", "request"})
BadRequest(message, more) == HttpResponse(400, FailureResult(message), more)

\* parseFloat(weightStr): NaN, or the number the text starts with.
NotANumber == [m |-> 0, e |-> 0, nan |-> TRUE]

\* GET /api/tools/weight-value
GetWeightValueResponse(q, e) ==
    IF q.metal = "" THEN [response |-> BadRequest("metal parameter is required", {}), fetched |-> 0]
    ELSE IF ~q.weightGiven
    THEN [response |-> BadRequest("weight parameter is required", {}), fetched |-> 0]
    ELSE IF q.unit = <<>>
    THEN [response |-> BadRequest("unit parameter is required (g, oz, kg)", {}), fetched |-> 0]
    ELSE IF q.weight = NotANumber \/ q.weight.m <= 0
    THEN [response |-> BadRequest("weight must be a positive number", {}), fetched |-> 0]
    ELSE LET Sent(r) == [response |-> ToolResponse(r.result), fetched |-> r.fetched]
         IN  Sent(executeWeightValueTool(
                      [metal |-> q.metal, weight |-> q.weight, unit |-> q.unit,
                       karat |-> q.karat, currency |-> "USD"], e))

\* GET /api/tools/calculation
GetCalculationResponse(q) ==
    IF q.expression = <<>>
    THEN BadRequest("Expression parameter is required", {"usage", "examples"})
    ELSE IF q.description = <<>>
    THEN BadRequest("Description parameter is required", {"usage", "examples"})
    ELSE ToolResponse(executeCalculationTool(q.expression, q.description).result)

\* metal.toUpperCase() on the metals of the requests below.
MetalToUpperCase(metal) == IF metal = "xau" THEN "XAU" ELSE metal

\* GET /api/tools/spot-price
GetSpotPriceResponse(q, e) ==
    IF q.metal = ""
    THEN [response |-> BadRequest("Metal parameter is required", {"usage", "validMetals"}),
          fetched |-> 0]
    ELSE IF MetalToUpperCase(q.metal) \notin ValidMetals
    THEN [response |-> BadRequest("Invalid metal", {"validMetals"}), fetched |-> 0]
    ELSE LET Sent(r) == [response |-> ToolResponse(r.result), fetched |-> r.fetched]
         IN  Sent(executeSpotPriceTool(
                      [metal |-> MetalToUpperCase(q.metal), currency |-> "USD"], e))

QueryMetals == {"", "XAU", "xau", "XXX"}
QueryWeights == {Dec(2, 0), Dec(0, 0), Dec(-1, 0), NotANumber}
QueryUnits == {<<>>, <<"g">>, <<"l", "b">>}
QueryUpstreams ==
    {[kind |-> "status"],
     [kind |-> "payload",
      fields |-> Payload(Dec(2037, 0), Dec(655, -1), Dec(49, 0))]}

InitRoutes ==
    /\ pc = "request"
    /\ \/ /\ args \in [tool : {"weight-value"}, metal : QueryMetals,
                       weightGiven : BOOLEAN, weight : QueryWeights,
                       unit : QueryUnits, karat : {"", "18k", "9k"}]
          /\ (~args.weightGiven => args.weight = NotANumber)
          /\ env \in [apiKeySet : BOOLEAN, upstream : QueryUpstreams]
       \/ /\ args \in [tool : {"calculation"}, expression : Expressions,
                       description : Descriptions]
          /\ (args.description # <<"d">> => Len(args.expression) <= 1)
          /\ env = NoEnv
       \/ /\ args \in [tool : {"spot-price"}, metal : QueryMetals]
          /\ env \in [apiKeySet : BOOLEAN, upstream : QueryUpstreams]
    /\ functionArg = NoCall /\ fetchCalls = 0 /\ toolResult = NoResult
    /\ DirectCall

GetWeightValue ==
    /\ pc = "request" /\ args.tool = "weight-value"
    /\ LET Send(r) == toolResult' = r.response /\ fetchCalls' = fetchCalls + r.fetched
       IN  Send(GetWeightValueResponse(args, env))
    /\ pc' = "done"
    /\ UNCHANGED <<pageVars, args, env, functionArg, providerCalls, chatVars>>

GetCalculation ==
    /\ pc = "request" /\ args.tool = "calculation"
    /\ toolResult' = GetCalculationResponse(args)
    /\ pc' = "done"
    /\ UNCHANGED <<pageVars, args, env, functionArg, fetchCalls, providerCalls, chatVars>>

GetSpotPrice ==
    /\ pc = "request" /\ args.tool = "spot-price"
    /\ LET Send(r) == toolResult' = r.response /\ fetchCalls' = fetchCalls + r.fetched
       IN  Send(GetSpotPriceResponse(args, env))
    /\ pc' = "done"
    /\ UNCHANGED <<pageVars, args, env, functionArg, providerCalls, chatVars>>

NextRoutes ==
    \/ GetWeightValue
    \/ GetCalculation
    \/ GetSpotPrice

SpecRoutes == InitRoutes /\ [][NextRoutes]_vars

\* A required parameter is absent or empty.
MissingParameter ==
    CASE args.tool = "weight-value" ->
             args.metal = "" \/ ~args.weightGiven \/ args.unit = <<>>
      [] args.tool = "calculation" ->
             args.expression = <<>> \/ args.description = <<>>
      [] OTHER -> args.metal = ""

\* A required parameter is given with a value the tool has no meaning for: an
\* unknown metal, a weight that is no positive number, an unknown unit, an
\* expression with a character that is not arithmetic or with parentheses
\* that do not match.
MalformedParameter ==
    CASE args.tool = "weight-value" ->
             \/ args.metal # "" /\ args.metal \notin ValidMetals
             \/ args.weightGiven /\ (args.weight = NotANumber \/ args.weight.m <= 0)
             \/ args.unit # <<>> /\ ~SupportedUnit(args.unit)
      [] args.tool = "calculation" ->
             /\ args.expression # <<>>
             /\ \/ ~OnlyArithmeticChars(StripBlanks(args.expression))
                \/ ~WellNested(args.expression)
      [] OTHER -> args.metal # "" /\ MetalToUpperCase(args.metal) \notin ValidMetals

IsBadRequest(response) ==
    /\ response.status = 400
    /\ "error" \in response.keys
    /\ "data" \notin response.keys

\* C19: on the per-tool endpoints, a request with a missing or malformed
\* required parameter (an unknown metal or unit on weight-value, a malformed
\* expression on calculation) is answered with status 400 and a body that
\* has an error field and no data field.
C19_MissingOrMalformedParameterIsBadRequest ==
    pc = "done" /\ (MissingParameter \/ MalformedParameter) => IsBadRequest(toolResult)

\* A missing parameter is a 400, and every 400 has an error and no data; a
\* malformed one is refused with an error and no data, whatever the status.
MissingParameterIsBadRequest ==
    pc = "done" =>
        /\ MissingParameter => IsBadRequest(toolResult)
        /\ toolResult.status = 400 => IsBadRequest(toolResult) /\ fetchCalls = 0
        /\ MalformedParameter =>
               ~toolResult.success /\ "error" \in toolResult.keys /\ "data" \notin toolResult.keys


\* ---------------------------------------------------------------------------
\* POST /api/chat: the handler reads the body, validates it, awaits
\* processChatWithLangChain and wraps its result.  The response is kept in
\* toolResult once the handler has answered (pc = "responded").
\* ---------------------------------------------------------------------------
RouteApology == "I'm sorry, I encountered an error processing your request. Please try again."
DefaultApology == "Sorry, I encountered an error processing your request."

ChatHttpResponse(status, keys, success, error, response) ==
    [status |-> status, keys |-> keys, success |-> success, error |-> error,
     response |-> response]

\* { error } with status 400
ChatBadRequest(message) == ChatHttpResponse(400, {"error"}, FALSE, message, <<>>)
\* The catch block: { error, message, response } with status 500
ChatServerError(thrown) ==
    ChatHttpResponse(500, {"error", "message", "response"}, FALSE,
                     "Internal server error", <<RouteApology>>)
\* !result.success: status 200; result.response || the default apology
ChatFailure(result) ==
    ChatHttpResponse(200, {"success", "error", "details", "response"}, FALSE,
                     "Failed to process chat message",
                     IF result.response = <<>> \/ result.response = <<"">>
                     THEN <<DefaultApology>> ELSE result.response)
ChatSuccess(result) ==
    ChatHttpResponse(200, {"success", "response", "usedTool", "toolResults", "toolsUsed",
                           "chartData", "timestamp"},
                     TRUE, "", result.response)

\* MODEL_PROVIDERS: the providers with the ids of their models, in order.
MODEL_PROVIDERS ==
    <<[id |-> "openai", models |-> <<"gpt-5", "gpt-5-mini", "gpt-5-nano">>],
      [id |-> "anthropic", models |-> <<"claude-sonnet-4.5", "claude-haiku-4.5">>],
      [id |-> "openrouter",
       models |-> <<"x-ai/grok-4-fast", "deepseek/deepseek-v3.2-exp", "z-ai/glm-4.6">>]>>

ModelsOf(providerId) ==
    LET found == {i \in 1..Len(MODEL_PROVIDERS) : MODEL_PROVIDERS[i].id = providerId}
    IN  IF found = {} THEN <<>> ELSE MODEL_PROVIDERS[CHOOSE i \in found : TRUE].models

isValidProviderAndModel(providerId, modelId) ==
    \E k \in 1..Len(ModelsOf(providerId)) : ModelsOf(providerId)[k] = modelId

\* The defaults of the parameters provider and modelName of
\* processChatWithLangChain.
ServiceDefaultProvider == "openai"
ServiceDefaultModel == "gpt-5-nano"

\* The request body: text that is no JSON, the JSON null, or an object whose
\* message is absent, a number, empty or a text, whose conversationHistory
\* is absent, an array or a text, and whose provider and model are absent ("")
\* or a text.
ChatBodies ==
    {[kind |-> "notjson"], [kind |-> "null"]}
      \cup [kind : {"object"}, message : {"absent", "number", "empty", "text"},
            conversationHistory : {"absent", "array", "text"},
            provider : {"", "openai", "anthropic", "bogus"},
            model : {"", "gpt-5-nano", "claude-haiku-4.5", "gpt-4"}]

InitChatRoute ==
    /\ pc = "post"
    \* provider and model are the arguments of the call of the service: none
    \* before the handler makes it.
    /\ args \in [orchestrator : {"langchain"}, provider : {""}, model : {""},
                 body : ChatBodies]
    /\ env \in [apiKeys : {{}, {"openai"}, {"openai", "anthropic"}},
                lastMessage : {"last"}]
    /\ functionArg = NoCall /\ fetchCalls = 0 /\ toolResult = NoResult
    /\ DirectCall

\* Lines 9-30: request.json(), the destructuring and the two validations.
PostChat ==
    /\ pc = "post"
    /\ IF args.body.kind = "notjson"
       THEN toolResult' = ChatServerError(ErrorThrown("Unexpected token")) /\ pc' = "responded"
              /\ args' = args
       ELSE IF args.body.kind = "null"
       THEN toolResult' = ChatServerError(ErrorThrown("Cannot destructure property"))
              /\ pc' = "responded" /\ args' = args
       ELSE IF args.body.message # "text"
       THEN toolResult' = ChatBadRequest("Message is required and must be a string")
              /\ pc' = "responded" /\ args' = args
       ELSE IF args.body.conversationHistory = "text"
       THEN toolResult' = ChatBadRequest("Conversation history must be an array")
              /\ pc' = "responded" /\ args' = args
       \* processChatWithLangChain(message, conversationHistory): the other two
       \* parameters take their defaults.
       ELSE /\ toolResult' = toolResult /\ pc' = "lc_create"
            /\ args' = [args EXCEPT !.provider = ServiceDefaultProvider,
                                    !.model = ServiceDefaultModel]
    /\ UNCHANGED <<pageVars, env, functionArg, fetchCalls, providerCalls, chatVars>>

\* Lines 33-55: processChatWithLangChain has returned.
RespondChat ==
    /\ pc = "done"
    /\ chatResponse.returned
    /\ toolResult' = IF chatResponse.success THEN ChatSuccess(chatResponse)
                     ELSE ChatFailure(chatResponse)
    /\ pc' = "responded"
    /\ UNCHANGED <<pageVars, args, env, functionArg, fetchCalls, providerCalls, chatVars>>

NextChatRoute ==
    \/ PostChat
    \/ CreateAgent
    \/ AgentModelCall
    \/ AgentTool
    \/ LangChainAnswer
    \/ RespondChat

SpecChatRoute == InitChatRoute /\ [][NextChatRoute]_vars

\* The handler answered an error that is no validation error: its catch
\* block ran, or the orchestrator returned success=false.
ChatErrorResponse ==
    /\ pc = "responded"
    /\ \/ toolResult.status = 500
       \/ toolResult.status = 200 /\ chatResponse.returned /\ ~chatResponse.success

HasApology(response) ==
    /\ "response" \in response.keys
    /\ Len(response.response) = 1
    /\ response.response[1] \in {RouteApology, DefaultApology, LangChainApology}

\* C20: every error response of the chat endpoint that is no 400, the one of
\* an orchestrator failure (200) and the one of the handler's catch block
\* (500), carries success=false, an error field and an apology in response.
C20_ErrorResponseHasSuccessFalseErrorAndApology ==
    ChatErrorResponse =>
        /\ "success" \in toolResult.keys /\ ~toolResult.success
        /\ "error" \in toolResult.keys
        /\ HasApology(toolResult)

\* Both error responses have the error field and the apology; the one of an
\* orchestrator failure has success=false too, and a 500 is sent before the
\* orchestrator is called.
ChatErrorResponseHasErrorAndApology ==
    ChatErrorResponse =>
        /\ "error" \in toolResult.keys
        /\ HasApology(toolResult)
        /\ toolResult.status = 200 => "success" \in toolResult.keys /\ ~toolResult.success
        /\ toolResult.status = 500 => ~chatResponse.returned /\ providerCalls = 0


\* processChatWithLangChain has been called for the request.
ServiceInvoked == args.provider # ""

\* The body names a provider and a model.
PairGiven ==
    args.body.kind = "object" /\ args.body.provider # "" /\ args.body.model # ""

\* C21: a chat request whose provider/model pair is no combination of
\* MODEL_PROVIDERS is answered with status 400 and an error, and the LangChain
\* service is not invoked for it.
C21_InvalidProviderModelIsBadRequest ==
    /\ PairGiven /\ ~isValidProviderAndModel(args.body.provider, args.body.model)
          => ~ServiceInvoked
    /\ pc = "responded" /\ PairGiven
         /\ ~isValidProviderAndModel(args.body.provider, args.body.model)
          => toolResult.status = 400 /\ "error" \in toolResult.keys

\* C22: the provider and model of the request body are the ones passed to the
\* LangChain service, which builds the model instance from them.
C22_RequestedProviderAndModelArePassed ==
    ServiceInvoked /\ PairGiven
        => args.provider = args.body.provider /\ args.model = args.body.model

\* The service is called only for a body with a message and a valid history,
\* and always with the defaults of its parameters.
ServiceIsCalledWithDefaults ==
    ServiceInvoked =>
        /\ args.body.kind = "object" /\ args.body.message = "text"
        /\ args.body.conversationHistory # "text"
        /\ args.provider = ServiceDefaultProvider /\ args.model = ServiceDefaultModel
        /\ isValidProviderAndModel(args.provider, args.model)


\* ---------------------------------------------------------------------------
\* The chat page: Home with ModelSelector, ChatInput and Clear Chat.  An event
\* handler runs on the state of the last render.  A send carries what the
\* chat endpoint will do with it; response.json() is taken together with the
\* fetch it follows, as nothing is read or written between the two.
\* ---------------------------------------------------------------------------
MaxSends == 3   \* sends in one session

PageApology == "I apologize, but I encountered an error processing your request. Please try again."

\* The fetch resolves with a body of success=true, with one that is not (a
\* failure or a body with no success field), with a body that is no JSON, or
\* it rejects.
FetchOutcomes == {"success", "failure", "notjson", "reject"}

\* The model stays as it is.
KeepSelectedModel(providerId) == selectedModel
\* newProviderConfig.models[0].id
FirstModelOf(providerId) == ModelsOf(providerId)[1]

UserMessage(send) == [isUser |-> TRUE, send |-> send, text |-> "question"]
\* Only a success is answered by the assistant.
AssistantMessageOnSuccess(request) ==
    IF request.outcome = "success"
    THEN [isUser |-> FALSE, send |-> request.send, text |-> "response"]
    ELSE UserMessage(request.send)
\* botResponse in the try block, errorResponse in the catch block.
AssistantMessage(request) ==
    [isUser |-> FALSE, send |-> request.send,
     text |-> IF request.outcome = "success" THEN "response" ELSE PageApology]

InitPage ==
    /\ pc = "page"
    /\ args = [tool |-> "page"]
    /\ env = NoEnv
    /\ functionArg = NoCall /\ fetchCalls = 0 /\ toolResult = NoResult
    /\ DirectCall

\* ModelSelector.handleProviderChange: both setters run in one event.
ProviderChange ==
    /\ pc = "page"
    /\ \E k \in 1..Len(MODEL_PROVIDERS) :
          /\ MODEL_PROVIDERS[k].id # selectedProvider
          /\ selectedProvider' = MODEL_PROVIDERS[k].id
          /\ selectedModel' = IF Len(MODEL_PROVIDERS[k].models) > 0
                              THEN FirstModelOf(MODEL_PROVIDERS[k].id)
                              ELSE selectedModel
    /\ UNCHANGED <<pc, args, env, functionArg, fetchCalls, providerCalls, toolResult,
                   chatVars, messages, isLoading, inFlight, sent>>

\* ModelSelector.handleModelChange: the options are availableModels.
ModelChange ==
    /\ pc = "page"
    /\ \E k \in 1..Len(ModelsOf(selectedProvider)) :
          /\ ModelsOf(selectedProvider)[k] # selectedModel
          /\ selectedModel' = ModelsOf(selectedProvider)[k]
    /\ UNCHANGED <<pc, args, env, functionArg, fetchCalls, providerCalls, toolResult,
                   chatVars, messages, isLoading, selectedProvider, inFlight, sent>>

\* ChatInput.handleSubmit with a text, then handleSendMessage up to the fetch.
SendMessage ==
    /\ pc = "page"
    /\ ~isLoading
    /\ sent < MaxSends
    /\ \E outcome \in FetchOutcomes :
          inFlight' = inFlight \cup
              {[send |-> sent + 1, outcome |-> outcome,
                provider |-> selectedProvider, model |-> selectedModel]}
    /\ messages' = Append(messages, UserMessage(sent + 1))
    /\ isLoading' = TRUE
    /\ sent' = sent + 1
    /\ UNCHANGED <<pc, args, env, functionArg, fetchCalls, providerCalls, toolResult,
                   chatVars, selectedProvider, selectedModel>>

\* handleSendMessage after the fetch: try, catch and finally.
FetchSettles ==
    /\ pc = "page"
    /\ \E request \in inFlight :
          /\ messages' = Append(messages, AssistantMessage(request))
          /\ inFlight' = inFlight \ {request}
    /\ isLoading' = FALSE
    /\ UNCHANGED <<pc, args, env, functionArg, fetchCalls, providerCalls, toolResult,
                   chatVars, selectedProvider, selectedModel, sent>>

\* handleClearMessages: the button is there when there are messages.
ClearMessages ==
    /\ pc = "page"
    /\ Len(messages) > 0
    /\ messages' = <<>>
    /\ UNCHANGED <<pc, args, env, functionArg, fetchCalls, providerCalls, toolResult,
                   chatVars, isLoading, selectedProvider, selectedModel, inFlight, sent>>

NextPage ==
    \/ ProviderChange
    \/ ModelChange
    \/ SendMessage
    \/ FetchSettles
    \/ ClearMessages

SpecPage == InitPage /\ [][NextPage]_vars
\* Every fetch settles.
SpecPageFair == SpecPage /\ WF_vars(FetchSettles)

\* C23: from the default selection on and after any sequence of provider and
\* model changes, the selected model is one of the selected provider's
\* models, and a provider change selects the first model of the new provider.
C23_SelectedModelBelongsToSelectedProvider ==
    /\ [](pc = "page" => isValidProviderAndModel(selectedProvider, selectedModel))
    /\ [][selectedProvider' # selectedProvider
            => selectedModel' = ModelsOf(selectedProvider')[1]]_vars

\* Anthropic was selected, then its second model.
C23_Witness ==
    /\ selectedProvider = "anthropic"
    /\ selectedModel = "claude-haiku-4.5"


\* C29: in every state reachable by send, completion and Clear Chat events,
\* each assistant message of the list comes right after the user message it
\* answers: the list does not start with an assistant message and has no two
\* assistant messages in a row.
C29_AssistantMessageFollowsItsUserMessage ==
    pc = "page" =>
        \A i \in 1..Len(messages) :
            ~messages[i].isUser =>
                /\ i > 1
                /\ messages[i - 1].isUser
                /\ messages[i - 1].send = messages[i].send

\* Without Clear Chat between a send and its answer the order is kept: an
\* assistant message that does not follow its user message is the first of
\* the list, and its send was cleared away.
AssistantMessageOutOfPlaceIsFirst ==
    pc = "page" =>
        \A i \in 1..Len(messages) :
            ~messages[i].isUser /\ i > 1 =>
                messages[i - 1].isUser /\ messages[i - 1].send = messages[i].send

\* The assistant messages for a send in a list.
AnswersTo(send, list) ==
    Cardinality({i \in 1..Len(list) : ~list[i].isUser /\ list[i].send = send})

\* C30: every send is answered once its fetch settles, whatever the outcome:
\* the step that settles it appends exactly one assistant message for it, the
\* response on success and the apology otherwise, and sets isLoading to
\* false; no other step adds an assistant message; and the fetch of every
\* send does settle, after which the input is enabled again.
C30_EverySendIsAnsweredOnce ==
    /\ [][\A request \in inFlight :
             request \notin inFlight' =>
                 /\ messages' = Append(messages, messages'[Len(messages')])
                 /\ messages'[Len(messages')] =
                        [isUser |-> FALSE, send |-> request.send,
                         text |-> IF request.outcome = "success" THEN "response"
                                  ELSE PageApology]
                 /\ ~isLoading']_vars
    /\ [][inFlight' \ inFlight = {} /\ inFlight \ inFlight' = {}
             => \A send \in 1..MaxSends :
                    AnswersTo(send, messages') <= AnswersTo(send, messages)]_vars
    /\ \A send \in 1..MaxSends :
           (\E request \in inFlight : request.send = send)
               ~> (~isLoading /\ \A request \in inFlight : request.send # send)

\* The fetch of the second send rejected and the send was answered with the
\* apology; the input is enabled again.
C30_Witness ==
    /\ sent = 2
    /\ inFlight = {}
    /\ ~isLoading
    /\ Len(messages) = 4
    /\ messages[4] = [isUser |-> FALSE, send |-> 2, text |-> PageApology]
    /\ messages[2].text = "response"


\* The k-th tool_use block of the first response.
KthToolUse(k) ==
    CHOOSE i \in ToolUseBlocks(FirstContent) :
        Cardinality({j \in ToolUseBlocks(FirstContent) : j < i}) = k - 1

\* C24: in processChatWithLLM the tool-results message of the second provider
\* call has exactly one tool_result per tool_use block of the first response,
\* in the same order, each with the id of the tool_use it answers; a tool_use
\* naming an unknown tool gets a failure result and does not abort the request.
C24_OneToolResultPerToolUseInOrder ==
    /\ pc = "llm_second" =>
          /\ Len(toolResults) = Cardinality(ToolUseBlocks(FirstContent))
          /\ \A k \in 1..Len(toolResults) :
                /\ toolResults[k].type = "tool_result"
                /\ toolResults[k].tool_use_id = KthToolUse(k)
                /\ FirstContent[KthToolUse(k)].name \notin ToolNames =>
                      /\ ~toolResults[k].content.success
                      /\ "error" \in toolResults[k].content.keys
    /\ pc = "done" /\ ToolsRequested /\ ~InputMissing /\ env.second.kind = "response"
          => chatResponse.success

\* An unknown tool was requested before a known one: both have their result.
C24_Witness ==
    /\ pc = "llm_second"
    /\ Len(FirstContent) = 2
    /\ FirstContent[1].name = "get_weather"
    /\ FirstContent[2].name = "calculate"
    /\ Len(toolResults) = 2
    /\ ~toolResults[1].content.success
    /\ toolResults[2].content.success


\* ---------------------------------------------------------------------------
\* Two chat requests handled at the same time by processChatWithLangChain.
\* Everything a request works on is local to its call (the model and the
\* agent it creates, its messages, the result of agent.invoke); here each of
\* these variables maps a request to its own value.  env maps a request to
\* what the provider and the tools answer to it, call after call.
\* ---------------------------------------------------------------------------
Requests == {1, 2}

ToolSteps ==
    {[kind |-> "tool", name |-> name, content |-> run.result] :
        name \in {"get_time_chart_data"}, run \in ToolRuns("get_time_chart_data")}
      \cup {[kind |-> "tool", name |-> "calculate", content |-> run.result] :
              run \in {r \in ToolRuns("calculate") : r.result.success}}
\* The provider asks for up to MaxAgentCalls tools, then answers or fails.
Scripts ==
    {tools \o <<[kind |-> last]>> :
        tools \in SeqsUpTo(ToolSteps, MaxAgentCalls), last \in {"final", "reject"}}

\* All tool messages of all requests, as one shared list would hold them.
AllToolMessages(request) == toolResults[1] \o toolResults[2]
\* result.messages of the request's own agent.invoke: its tool messages.
ToolMessagesOf(request) == toolResults[request]

\* Lines 233-275 for one request.
ConcurrentAnswered(message, used, toolMessages) ==
    LET Chart(found) ==
            IF found = {} THEN NoData
            ELSE IF toolMessages[MinOf(found)].content.success
            THEN toolMessages[MinOf(found)].content.data
            ELSE NoData
    IN  [returned |-> TRUE, success |-> TRUE, response |-> <<"answer", message>>,
         usedTool |-> Len(used) > 0, toolsUsed |-> Unique(used),
         chartData |-> Chart({k \in 1..Len(toolMessages) :
                                toolMessages[k].name = "get_time_chart_data"})]

InitConcurrent ==
    /\ pc = [request \in Requests |-> "lc_agent"]
    /\ args = [request \in Requests |->
                 [message |-> IF request = 1 THEN "q1" ELSE "q2"]]
    /\ env \in [Requests -> Scripts]
    /\ toolResults = [request \in Requests |-> <<>>]
    /\ toolsUsed = [request \in Requests |-> <<>>]
    /\ pending = [request \in Requests |-> <<>>]
    /\ chatResponse = [request \in Requests |-> NoResponse]
    /\ functionArg = NoCall /\ fetchCalls = 0 /\ providerCalls = 0
    /\ toolResult = NoResult
    /\ HomeMounted

\* Inside agent.invoke of one request: the model is called.
ConcurrentModelCall ==
    /\ \E request \in Requests :
          /\ pc[request] = "lc_agent"
          /\ pending[request] = <<>>
          /\ LET Take(step) ==
                     CASE step.kind = "reject" ->
                            /\ chatResponse' =
                                   [chatResponse EXCEPT ![request] =
                                        LangChainCaught(ErrorThrown("overloaded"))]
                            /\ pc' = [pc EXCEPT ![request] = "done"]
                            /\ UNCHANGED <<toolsUsed, pending>>
                       [] step.kind = "tool" ->
                            /\ toolsUsed' = [toolsUsed EXCEPT ![request] =
                                                Append(@, step.name)]
                            /\ pending' = [pending EXCEPT ![request] = <<step>>]
                            /\ UNCHANGED <<pc, chatResponse>>
                       [] OTHER ->
                            /\ pc' = [pc EXCEPT ![request] = "lc_extract"]
                            /\ UNCHANGED <<chatResponse, toolsUsed, pending>>
             IN  Take(env[request][Len(toolsUsed[request]) + 1])
    /\ providerCalls' = providerCalls + 1
    /\ UNCHANGED <<pageVars, args, env, functionArg, fetchCalls, toolResult, toolResults>>

\* Inside agent.invoke of one request: the tool runs, its message is added.
ConcurrentTool ==
    /\ \E request \in Requests :
          /\ pc[request] = "lc_agent"
          /\ pending[request] # <<>>
          /\ toolResults' = [toolResults EXCEPT ![request] =
                 Append(@, [type |-> "tool", name |-> pending[request][1].name,
                            json |-> TRUE, content |-> pending[request][1].content])]
          /\ pending' = [pending EXCEPT ![request] = <<>>]
    /\ UNCHANGED <<pageVars, pc, args, env, functionArg, fetchCalls, providerCalls,
                   toolResult, toolsUsed, chatResponse>>

\* agent.invoke of one request has resolved.
ConcurrentAnswer ==
    /\ \E request \in Requests :
          /\ pc[request] = "lc_extract"
          /\ chatResponse' = [chatResponse EXCEPT ![request] =
                 ConcurrentAnswered(args[request].message, toolsUsed[request],
                                    ToolMessagesOf(request))]
          /\ pc' = [pc EXCEPT ![request] = "done"]
    /\ UNCHANGED <<pageVars, args, env, functionArg, fetchCalls, providerCalls, toolResult,
                   toolResults, toolsUsed, pending>>

NextConcurrent ==
    \/ ConcurrentModelCall
    \/ ConcurrentTool
    \/ ConcurrentAnswer

SpecConcurrent == InitConcurrent /\ [][NextConcurrent]_vars

\* What a request comes to when it is handled alone: a function of its
\* message and of what the provider and the tools answer to it.
HandledAlone(message, script) ==
    LET tools == SubSeq(script, 1, Len(script) - 1)
    IN  IF script[Len(script)].kind = "reject"
        THEN LangChainCaught(ErrorThrown("overloaded"))
        ELSE ConcurrentAnswered(message, [k \in 1..Len(tools) |-> tools[k].name],
                 [k \in 1..Len(tools) |->
                     [type |-> "tool", name |-> tools[k].name, json |-> TRUE,
                      content |-> tools[k].content]])

C26_SuccessStartsStrictlyBeforeEnd ==
    LET Backwards(data, range) ==
            MonthOfExcelDate(range.startDate) > MonthOfExcelDate(range.endDate)
    IN  (pc = "done" /\ args.tool = "get_historical_data") =>
            /\ toolResult.success =>
                 MonthOfExcelDate(toolResult.data.startDate)
                   < MonthOfExcelDate(toolResult.data.endDate)
            /\ ForRequestedRange(Backwards) => ~toolResult.success

\* The number of points of the series whose period lies chronologically
\* between the two dates, both included.
PeriodsBetween(data, startDate, endDate) ==
    Cardinality({i \in 1..Len(data) :
        /\ MonthOfExcelDate(startDate) <= MonthOfExcelDate(data[i].date)
        /\ MonthOfExcelDate(data[i].date) <= MonthOfExcelDate(endDate)})

\* C27: in every successful historical-data result data.dataPoints is the
\* number of dataset periods chronologically between the result's start and
\* end periods inclusive, also when the range contains the months 10 to 12.
C27_DataPointsCountsPeriodsOfRange ==
    LET Counted(data, range) ==
            toolResult.data.dataPoints
              = PeriodsBetween(data, toolResult.data.startDate,
                               toolResult.data.endDate)
    IN  (pc = "done" /\ args.tool = "get_historical_data" /\ toolResult.success)
            => ForRequestedRange(Counted)

\* The months a relative period of the schema stands for; weeks are counted
\* in months as the parser counts them.
SchemaPeriodMonths(relativePeriod) ==
    LET n == DigitVal(relativePeriod[1])
    IN  CASE relativePeriod[2] = "w" -> (200 * n + 433) \div 866
          [] relativePeriod[2] = "m" -> n
          [] relativePeriod[2] = "y" -> 12 * n

\* C28: every relativePeriod value of the LangChain get_historical_data
\* schema is resolved into a range of the corresponding length that ends at
\* the latest data period, and the call does not fail when the series of the
\* metal is there.
C28_SchemaRelativePeriodsAreResolved ==
    (/\ pc = "done" /\ args.tool = "get_historical_data"
     /\ args.relativePeriod \in SchemaRelativePeriods
     /\ args.metal = "XAU" /\ env.file.kind = "data"
     /\ env.file.data.Gold = GoldSeries)
        => /\ toolResult.success
           /\ ~parseRelativePeriod(args.relativePeriod).threw
           /\ MonthOfExcelDate(parseRelativePeriod(args.relativePeriod).endDate)
                - MonthOfExcelDate(parseRelativePeriod(args.relativePeriod).startDate)
                = SchemaPeriodMonths(args.relativePeriod)

\* The calls with a relative period of the schema fail in the parser.
SchemaRelativePeriodsAreNotParsed ==
    (/\ pc = "done" /\ args.tool = "get_historical_data"
     /\ args.relativePeriod \in SchemaRelativePeriods
     /\ args.metal = "XAU" /\ env.file.kind = "data"
     /\ env.file.data.Gold = GoldSeries)
        => /\ ~toolResult.success
           /\ parseRelativePeriod(args.relativePeriod).threw

=============================================================================
